---- MODULE Spec2Model ----
(***************************************************************************)
(* The transaction match scorer of the MedSpaSync AI API (app.py): the     *)
(* string-similarity primitive, the feature engineer, the scorer and the   *)
(* /predict and /batch-predict routes that call it; the conversation       *)
(* context and the ticket store of the support bot                         *)
(* (AICustomerSupportBot.py); and the intervention priority of the churn   *)
(* model (ChurnPredictionModel.py).                                        *)
(*                                                                         *)
(* A Python string is a sequence of one-character strings.  A number in    *)
(* [0,1] is an integer count of units of 1/PUnit.  The IEEE double         *)
(* arithmetic of ratio() is carried out exactly, and the cases in which    *)
(* the double result of line 309 falls just below an exact integer (so     *)
(* that int() truncates one lower) are listed in FloatShortfall.           *)
(***************************************************************************)
EXTENDS Integers, Sequences, FiniteSets, TLC

VARIABLES
    s1, s2,         \* SpecRatio: the two arguments of a ratio() call
    rpc,            \*   "call" before the call, "done" after it
    score,          \*   what the call returned
    reward, pos,    \* SpecScore: the two records given to predict_match
    thr,            \*   the threshold of the latest call
    out,            \*   <<result>> of the latest call, <<>> before the first
    prevThr,        \*   the threshold of the call before it
    prevOut,        \*   <<result>> of the call before it, <<>> if there was none
    cargs,          \* SpecConc: cargs[c] = [reward, pos, threshold] of scoring call c
    cpc,            \*   cpc[c]: "start", "features" (engineer_features returned), "done"
    frames,         \*   frames[slot]: the `features` variable held in that slot
    cout,           \*   cout[c]: what call c returned
    request,        \* Spec: the HTTP request being handled, [route, data]
    env,            \*   env[n]: the n-th scorer call of the request raises
    hpc,            \*   "idle", "received" (request read), "replied"
    response,       \*   the response of the handler
    scored,         \*   how many times the handler called api.predict_match
    dstr,           \* SpecDate: the argument of a parse_date() call
    dpc,            \*   "call" before the call, "done" after it
    dres,           \*   how the call ended: [exc, value]
    rtx, ptx,       \* SpecFeatures: the two records given to engineer_features
    fpc,            \*   "call" before the call, "done" after it
    fres,           \*   how the call ended: [exc, value]
    contexts,       \* SpecChat: the Redis values, contexts[session_id] (<<>>: no key)
    turns,          \*   turns[session_id]: the accepted turns in arrival order
    expired,        \*   how many keys have expired so far
    chatReply,      \*   the status of the latest chat response (0: none yet)
    inflight,       \* SpecChatConc: inflight[r] = [session_id, message, pc, context]
    support_tickets,\* SpecTickets: self.support_tickets, as the set of its values
    creations,      \*   how many creations have reported success
    ticketRequest,  \*   the latest request that reached the store, [op, ticket_id, data]
    ticketReply,    \*   the status of its response (0: none yet)
    user_data,      \* SpecChurn: the argument of predict_churn_risk
    prediction,     \*   <<ChurnPrediction>> once it returned
    now             \* the wall clock (datetime.now())

ratioVars == <<s1, s2, rpc, score>>
scoreVars == <<reward, pos, thr, out, prevThr, prevOut>>
concVars == <<cargs, cpc, frames, cout>>
httpVars == <<request, env, hpc, response, scored>>
dateVars == <<dstr, dpc, dres>>
featVars == <<rtx, ptx, fpc, fres>>
chatVars == <<contexts, turns, expired, chatReply, inflight>>
ticketVars == <<support_tickets, creations, ticketRequest, ticketReply>>
supportVars == <<chatVars, ticketVars>>
churnVars == <<user_data, prediction>>
apiVars == <<ratioVars, scoreVars, concVars, httpVars, dateVars, featVars>>
vars == <<s1, s2, rpc, score, reward, pos, thr, out, prevThr, prevOut,
          cargs, cpc, frames, cout, request, env, hpc, response, scored,
          dstr, dpc, dres, rtx, ptx, fpc, fres,
          contexts, turns, expired, chatReply, inflight,
          support_tickets, creations, ticketRequest, ticketReply,
          user_data, prediction, now>>

----------------------------------------------------------------------------
(* str.lower(), str.strip(), str.split(), `in`                              *)

UpperCase == <<"A","B","C","D","E","F","G","H","I","J","K","L","M",
               "N","O","P","Q","R","S","T","U","V","W","X","Y","Z">>
LowerCase == <<"a","b","c","d","e","f","g","h","i","j","k","l","m",
               "n","o","p","q","r","s","t","u","v","w","x","y","z">>

IsSpace(c) == c = " "

LowerChar(c) ==
    IF \E i \in 1..Len(UpperCase) : UpperCase[i] = c
    THEN LowerCase[CHOOSE i \in 1..Len(UpperCase) : UpperCase[i] = c]
    ELSE c

Lower(s) == [i \in 1..Len(s) |-> LowerChar(s[i])]

Strip(s) ==
    LET keep == {i \in 1..Len(s) : ~IsSpace(s[i])}
    IN  IF keep = {} THEN <<>>
        ELSE LET lo == CHOOSE i \in keep : \A j \in keep : i <= j
                 hi == CHOOSE i \in keep : \A j \in keep : j <= i
             IN  SubSeq(s, lo, hi)

\* set(s.split()): the maximal runs of non-whitespace characters
SplitSet(s) ==
    {SubSeq(s, i, j) : <<i, j>> \in
        {p \in (1..Len(s)) \X (1..Len(s)) :
            /\ p[1] <= p[2]
            /\ \A k \in p[1]..p[2] : ~IsSpace(s[k])
            /\ (p[1] = 1 \/ IsSpace(s[p[1] - 1]))
            /\ (p[2] = Len(s) \/ IsSpace(s[p[2] + 1]))}}

\* a in b
IsSubstr(a, b) ==
    \E k \in 0..(Len(b) - Len(a)) : SubSeq(b, k + 1, k + Len(a)) = a

\* c in s, for a character c
CharIn(c, s) == \E j \in 1..Len(s) : s[j] = c

\* The one element of a one-element set.  Only({F(v) : v \in {e}}) is
\* LET v == e IN F(v) with e evaluated once, however often F uses v.
Only(S) == CHOOSE x \in S : TRUE

Max(a, b) == IF a >= b THEN a ELSE b
Min(a, b) == IF a <= b THEN a ELSE b

----------------------------------------------------------------------------
(* SimpleFuzzyMatcher.ratio                                                 *)

\* The double evaluation of (jaccard * 0.6 + char_similarity * 0.4) * 100
\* lands just below the exact integer value for these
\* <<jaccard numerator, denominator, substring bonus, char_similarity
\* numerator, denominator>> (all of them for a token union of at most 4 and
\* strings of at most 16 characters).
ShortfallTable ==
    { <<0,1,0,7,10>>, <<1,4,0,7,10>>, <<1,3,0,3,10>>, <<1,3,0,3,5>>,
      <<1,3,0,5,8>>,  <<1,3,1,0,1>>,  <<1,3,1,1,10>>, <<1,3,1,1,8>>,
      <<1,3,1,3,10>>, <<1,3,1,1,2>>,  <<1,3,1,3,5>>,  <<1,3,1,5,8>>,
      <<1,3,1,7,10>>, <<1,2,0,7,10>>, <<1,2,1,1,4>>,  <<2,3,0,1,10>>,
      <<2,3,0,1,8>>,  <<2,3,0,3,5>>,  <<2,3,0,5,8>>,  <<2,3,1,0,1>>,
      <<2,3,1,1,5>>,  <<2,3,1,7,10>>, <<3,4,0,0,1>>,  <<3,4,0,1,8>>,
      <<3,4,0,1,4>>,  <<3,4,0,3,10>>, <<3,4,0,1,2>>,  <<3,4,1,7,10>>,
      <<1,1,0,7,10>> }

FloatShortfall(i, u, b, c, m) ==
    \E t \in ShortfallTable :
        /\ i * t[2] = t[1] * u
        /\ b = t[3]
        /\ c * t[5] = t[4] * m

\* FinalScore without min(100, ...)
FinalScoreUncapped(intersection, union, bonus, common_chars, longest) ==
    LET num == 600 * intersection * longest + 180 * bonus * union * longest
               + 400 * common_chars * union
        exact == num \div (10 * union * longest)
    IN  IF FloatShortfall(intersection, union, bonus, common_chars, longest)
        THEN exact - 1 ELSE exact

\* min(100, (jaccard * 0.6 + char_similarity * 0.4) * 100) truncated by int(),
\* with jaccard = intersection/union + 0.3*bonus and
\* char_similarity = common_chars/longest
FinalScore(intersection, union, bonus, common_chars, longest) ==
    LET num == 600 * intersection * longest + 180 * bonus * union * longest
               + 400 * common_chars * union
        exact == num \div (10 * union * longest)
    IN  Min(100, IF FloatShortfall(intersection, union, bonus, common_chars, longest)
                 THEN exact - 1 ELSE exact)

\* ratio() from line 288 on: x1 and x2 are lower-cased and stripped
RatioStripped(x1, x2) ==
    IF x1 = x2 THEN 100
    ELSE Only({
        IF union = 0 THEN 0
        ELSE Only({FinalScore(intersection, union, bonus, common_chars, longest) :
                 bonus \in {IF IsSubstr(x1, x2) \/ IsSubstr(x2, x1) THEN 1 ELSE 0},
                 common_chars \in {Cardinality({i \in 1..Len(x1) : CharIn(x1[i], x2)})},
                 longest \in {Max(Len(x1), Len(x2))}}) :
            intersection \in {Cardinality(SplitSet(x1) \cap SplitSet(x2))},
            union \in {Cardinality(SplitSet(x1) \cup SplitSet(x2))}})

ratio(a1, a2) ==
    IF a1 = <<>> \/ a2 = <<>> THEN 0
    ELSE Only({RatioStripped(x1, x2) :
                  x1 \in {Strip(Lower(a1))}, x2 \in {Strip(Lower(a2))}})

----------------------------------------------------------------------------
(* Values of a transaction record                                           *)
(*                                                                          *)
(* A record is a function from the field names it holds to their values.    *)
(* customer_name and service are strings.  amount is [k, v]: k = "num" a    *)
(* number v, "numstr" a string float() parses to v, "text" a string float() *)
(* rejects (ValueError), "null" (TypeError), "huge" an integer too large    *)
(* for a double (OverflowError).  date is [form, day, hh]: the shape of the *)
(* string, the calendar day it names and the half-hour of that day.         *)

Get(tx, field, default) == IF field \in DOMAIN tx THEN tx[field] ELSE default

Num(v) == [k |-> "num", v |-> v]
DateStr(form, day, hh) == [form |-> form, day |-> day, hh |-> hh]
EmptyDate == DateStr("empty", 0, 0)

\* float(x): <<v>>, or <<>> when it raises; FloatRaises names the exception
Float(x) == IF x.k \in {"num", "numstr"} THEN <<x.v>> ELSE <<>>
FloatRaises(x) ==
    CASE x.k = "text" -> "ValueError"
      [] x.k = "null" -> "TypeError"
      [] x.k = "huge" -> "OverflowError"
      [] OTHER -> "no"

----------------------------------------------------------------------------
(* MedSpaReconciliationAPI.parse_date: <<t>> in half-hours, or <<>> (None)  *)

\* `not date_str`: the empty string, or null
Falsy(d) == d.form \in {"empty", "null"}
\* the string contains 'T' or ' ' after strip()
HasSeparator(d) ==
    d.form \in {"iso_space", "iso_T", "iso_frac", "iso_tz", "text_sep", "mdy_time"}
\* datetime.fromisoformat accepts it once 'T' is a space and the fraction is cut
IsoParses(d) == d.form \in {"iso_space", "iso_T", "iso_frac", "iso_tz"}
\* the string carries a UTC offset: fromisoformat returns an aware datetime
Aware(d) == d.form = "iso_tz"
\* one of '%Y-%m-%d', '%m/%d/%Y', '%d/%m/%Y', '%m.%d.%y', '%m-%d-%Y' parses it
FormatParses(d) == d.form \in {"ymd", "mdy", "dmy", "mdy_dot", "mdy_dash"}

HalfHoursPerDay == 2 * 24

\* The dates are days of August 2024.  A day-first string DD/08/2024 with
\* DD <= 12 is taken by '%m/%d/%Y', tried before '%d/%m/%Y', as the 8th of
\* month DD; DaysBeforeMonth[m] is the number of days of 2024 before month m.
DaysBeforeMonth == <<0, 31, 60, 91, 121, 152, 182, 213, 244, 274, 305, 335>>
CalendarDay(d) ==
    IF d.form = "dmy" /\ d.day <= 12
    THEN DaysBeforeMonth[d.day] + 8 - DaysBeforeMonth[8]
    ELSE d.day

\* how a block of code ends: the exception it raises ("none": it does not)
\* and the value it leaves
Returns(value) == [exc |-> "none", value |-> value]
Raises(exc, value) == [exc |-> exc, value |-> value]

\* try: ... except ValueError: <fallback>
CaughtValueError(outcome, fallback) ==
    IF outcome.exc = "ValueError" THEN Returns(fallback) ELSE outcome

\* try: ... except: <fallback>  (a bare except catches every exception)
Caught(outcome, fallback) ==
    IF outcome.exc # "none" THEN Returns(fallback) ELSE outcome

\* the body of the outer try of parse_date: fromisoformat raises ValueError on
\* a string it does not accept; a strptime that fails is caught in the loop
ParseBody(d) ==
    IF HasSeparator(d)
    THEN IF IsoParses(d) THEN Returns(<<d.day * HalfHoursPerDay + d.hh>>)
         ELSE Raises("ValueError", <<>>)
    ELSE IF FormatParses(d) THEN Returns(<<CalendarDay(d) * HalfHoursPerDay>>)
         ELSE Returns(<<>>)

\* ParseOutcome without the outer try
ParseOutcomeUnguarded(d) ==
    IF Falsy(d) THEN Returns(<<>>) ELSE ParseBody(d)

\* the whole of parse_date
ParseOutcome(d) ==
    IF Falsy(d) THEN Returns(<<>>) ELSE Caught(ParseBody(d), <<>>)

parse_date(d) == ParseOutcome(d).value

----------------------------------------------------------------------------
(* MedSpaReconciliationAPI.engineer_features                                *)

SimUnit == 100                       \* name and service similarity: 1/100
WindowHours == 168
DateUnit == 2 * WindowHours          \* date_proximity: 1/336 (half-hours)
PUnit == 10 * SimUnit * DateUnit     \* overall_confidence, probability

treatment_keywords == <<
    \* botox: botox, lyft, neurotoxin, dysport, toxin, wrinkle
    {<<"b","o","t","o","x">>,
     <<"l","y","f","t">>,
     <<"n","e","u","r","o","t","o","x","i","n">>,
     <<"d","y","s","p","o","r","t">>,
     <<"t","o","x","i","n">>,
     <<"w","r","i","n","k","l","e">>},
    \* filler: filler, juvederm, voluma, restylane, radiesse, dermal
    {<<"f","i","l","l","e","r">>,
     <<"j","u","v","e","d","e","r","m">>,
     <<"v","o","l","u","m","a">>,
     <<"r","e","s","t","y","l","a","n","e">>,
     <<"r","a","d","i","e","s","s","e">>,
     <<"d","e","r","m","a","l">>},
    \* coolsculpting: coolsculpting, body sculpting, fat freezing, cryo
    {<<"c","o","o","l","s","c","u","l","p","t","i","n","g">>,
     <<"b","o","d","y"," ","s","c","u","l","p","t","i","n","g">>,
     <<"f","a","t"," ","f","r","e","e","z","i","n","g">>,
     <<"c","r","y","o">>},
    \* laser: laser, ipl, photofacial, hair removal, skin resurfacing
    {<<"l","a","s","e","r">>,
     <<"i","p","l">>,
     <<"p","h","o","t","o","f","a","c","i","a","l">>,
     <<"h","a","i","r"," ","r","e","m","o","v","a","l">>,
     <<"s","k","i","n"," ","r","e","s","u","r","f","a","c","i","n","g">>},
    \* iv: iv, im, injection, vitamin, b-12, wellness, hydration
    {<<"i","v">>,
     <<"i","m">>,
     <<"i","n","j","e","c","t","i","o","n">>,
     <<"v","i","t","a","m","i","n">>,
     <<"b","-","1","2">>,
     <<"w","e","l","l","n","e","s","s">>,
     <<"h","y","d","r","a","t","i","o","n">>} >>

\* any(kw in service for kw in keywords)
KeywordMatch(service, keywords) == \E kw \in keywords : IsSubstr(kw, service)

\* NormalisePosName leaving "Last, First" as it is
NormalisePosNameKeepOrder(reward_name, pos_name) == pos_name

\* NormalisePosName splitting at the first comma however many there are
NormalisePosNameFirstComma(reward_name, pos_name) ==
    LET commas == {i \in 1..Len(pos_name) : pos_name[i] = ","}
    IN  IF commas # {} /\ ~CharIn(",", reward_name)
        THEN LET k == CHOOSE i \in commas : \A j \in commas : i <= j
             IN  Strip(SubSeq(pos_name, k + 1, Len(pos_name))) \o <<" ">>
                 \o Strip(SubSeq(pos_name, 1, k - 1))
        ELSE pos_name

\* "Last, First" of the POS name: swapped when it has exactly two comma parts
\* and the reward name has no comma
NormalisePosName(reward_name, pos_name) ==
    LET commas == {i \in 1..Len(pos_name) : pos_name[i] = ","}
    IN  IF commas # {} /\ ~CharIn(",", reward_name) /\ Cardinality(commas) = 1
        THEN LET k == CHOOSE i \in commas : TRUE
             IN  Strip(SubSeq(pos_name, k + 1, Len(pos_name))) \o <<" ">>
                 \o Strip(SubSeq(pos_name, 1, k - 1))
        ELSE pos_name

NameSimilarity(reward_txn, pos_txn) ==
    Only({ratio(reward_name, normalised) :
        <<reward_name, normalised>> \in
            {<<rn, NormalisePosName(rn, pn)>> :
                rn \in {Strip(Lower(Get(reward_txn, "customer_name", <<>>)))},
                pn \in {Strip(Lower(Get(pos_txn, "customer_name", <<>>)))}}})

ServiceSimilarity(reward_txn, pos_txn) ==
    Only({ratio(reward_service, pos_service) :
        reward_service \in {Lower(Get(reward_txn, "service", <<>>))},
        pos_service \in {Lower(Get(pos_txn, "service", <<>>))}})

\* TreatmentCategoryMatch satisfied by keywords of two different categories
TreatmentCategoryMatchAnyCategory(reward_txn, pos_txn) ==
    IF \E reward_service \in {Lower(Get(reward_txn, "service", <<>>))},
          pos_service \in {Lower(Get(pos_txn, "service", <<>>))} :
           /\ \E c \in 1..Len(treatment_keywords) :
                 KeywordMatch(reward_service, treatment_keywords[c])
           /\ \E c \in 1..Len(treatment_keywords) :
                 KeywordMatch(pos_service, treatment_keywords[c])
    THEN 1 ELSE 0

\* the loop over the categories breaks at the first one both services match:
\* the flag is 1 exactly when there is such a category
TreatmentCategoryMatch(reward_txn, pos_txn) ==
    IF \E reward_service \in {Lower(Get(reward_txn, "service", <<>>))},
          pos_service \in {Lower(Get(pos_txn, "service", <<>>))} :
           \E c \in 1..Len(treatment_keywords) :
              /\ KeywordMatch(reward_service, treatment_keywords[c])
              /\ KeywordMatch(pos_service, treatment_keywords[c])
    THEN 1 ELSE 0

Abs(x) == IF x < 0 THEN -x ELSE x

\* DateProximity measured from the reward date to the wall clock (in days)
DateProximityFromNow(reward_txn, pos_txn) ==
    LET reward_date == parse_date(Get(reward_txn, "date", EmptyDate))
        pos_date == parse_date(Get(pos_txn, "date", EmptyDate))
    IN  IF reward_date # <<>> /\ pos_date # <<>>
        THEN Max(0, DateUnit - Abs(reward_date[1] - (pos_date[1] + now * HalfHoursPerDay)))
        ELSE 0

\* the body of the date try: max(0, 1 - hours_diff/168), in 1/DateUnit;
\* subtracting an aware datetime and a naive one raises TypeError
DateBlock(reward_txn, pos_txn) ==
    LET reward_str == Get(reward_txn, "date", EmptyDate)
        pos_str == Get(pos_txn, "date", EmptyDate)
        reward_date == parse_date(reward_str)
        pos_date == parse_date(pos_str)
    IN  IF reward_date # <<>> /\ pos_date # <<>>
        THEN IF Aware(reward_str) # Aware(pos_str)
             THEN Raises("TypeError", 0)
             ELSE Returns(Max(0, DateUnit - Abs(reward_date[1] - pos_date[1])))
        ELSE Returns(0)

\* the date try with its bare except
DateProximity(reward_txn, pos_txn) == Caught(DateBlock(reward_txn, pos_txn), 0).value

\* AmountBlock dividing before it looks at pos_amount
AmountBlockUnguarded(reward_txn, pos_txn) ==
    LET reward_amount == Get(reward_txn, "amount", Num(0))
        pos_amount == Get(pos_txn, "amount", Num(0))
    IN  IF FloatRaises(reward_amount) # "no" THEN Raises(FloatRaises(reward_amount), 0)
        ELSE IF FloatRaises(pos_amount) # "no" THEN Raises(FloatRaises(pos_amount), 0)
        ELSE IF Float(pos_amount)[1] = 0 THEN Raises("ZeroDivisionError", 0)
        ELSE IF /\ Float(pos_amount)[1] > 0
                /\ Float(pos_amount)[1] <= 20 * Float(reward_amount)[1]
                /\ 2 * Float(reward_amount)[1] <= Float(pos_amount)[1]
             THEN Returns(1) ELSE Returns(0)

\* the body of the amount try: 1 iff pos_amount > 0 and
\* 0.05 <= reward_amount / pos_amount <= 0.5; float() raises on what is not
\* a number
AmountBlock(reward_txn, pos_txn) ==
    LET reward_amount == Get(reward_txn, "amount", Num(0))
        pos_amount == Get(pos_txn, "amount", Num(0))
    IN  IF FloatRaises(reward_amount) # "no" THEN Raises(FloatRaises(reward_amount), 0)
        ELSE IF FloatRaises(pos_amount) # "no" THEN Raises(FloatRaises(pos_amount), 0)
        ELSE IF Float(pos_amount)[1] > 0
             THEN IF /\ Float(pos_amount)[1] <= 20 * Float(reward_amount)[1]
                     /\ 2 * Float(reward_amount)[1] <= Float(pos_amount)[1]
                  THEN Returns(1) ELSE Returns(0)
             ELSE Returns(0)

\* the amount try with its bare except
AmountRatioValid(reward_txn, pos_txn) == Caught(AmountBlock(reward_txn, pos_txn), 0).value

\* name*0.4 + service*0.3 + date*0.2 + amount*0.1, in 1/PUnit
OverallConfidence(name, service, date, amount) ==
    name * 4 * (PUnit \div (10 * SimUnit))
    + service * 3 * (PUnit \div (10 * SimUnit))
    + date * 2 * (PUnit \div (10 * DateUnit))
    + amount * 1 * (PUnit \div 10)

\* engineer_features giving treatment_category_match a weight of 0.1, taken
\* from the weight of service_similarity
EngineerFeaturesCategoryWeighted(reward_txn, pos_txn) ==
    Only({[name_similarity |-> name,
           service_similarity |-> service,
           treatment_category_match |-> category,
           date_proximity |-> date,
           amount_ratio_valid |-> amount,
           overall_confidence |->
               name * 4 * (PUnit \div (10 * SimUnit))
               + service * 2 * (PUnit \div (10 * SimUnit))
               + category * (PUnit \div 10)
               + date * 2 * (PUnit \div (10 * DateUnit))
               + amount * 1 * (PUnit \div 10)] :
        name \in {NameSimilarity(reward_txn, pos_txn)},
        service \in {ServiceSimilarity(reward_txn, pos_txn)},
        category \in {TreatmentCategoryMatch(reward_txn, pos_txn)},
        date \in {DateProximity(reward_txn, pos_txn)},
        amount \in {AmountRatioValid(reward_txn, pos_txn)}})

engineer_features(reward_txn, pos_txn) ==
    Only({[name_similarity |-> name,
           service_similarity |-> service,
           treatment_category_match |-> TreatmentCategoryMatch(reward_txn, pos_txn),
           date_proximity |-> date,
           amount_ratio_valid |-> amount,
           overall_confidence |-> OverallConfidence(name, service, date, amount)] :
        name \in {NameSimilarity(reward_txn, pos_txn)},
        service \in {ServiceSimilarity(reward_txn, pos_txn)},
        date \in {DateProximity(reward_txn, pos_txn)},
        amount \in {AmountRatioValid(reward_txn, pos_txn)}})

\* how engineer_features ends: nothing outside the two try blocks raises on
\* records whose names and services are strings
EngineerOutcome(reward_txn, pos_txn) ==
    LET date == Caught(DateBlock(reward_txn, pos_txn), 0)
        amount == Caught(AmountBlock(reward_txn, pos_txn), 0)
    IN  IF date.exc # "none" THEN Raises(date.exc, <<>>)
        ELSE IF amount.exc # "none" THEN Raises(amount.exc, <<>>)
        ELSE Returns(<<engineer_features(reward_txn, pos_txn)>>)

----------------------------------------------------------------------------
(* MedSpaReconciliationAPI.predict_match                                    *)

\* p/q as a fraction of PUnit
Frac(p, q) == (p * PUnit) \div q

\* round(a/b) to the nearest integer, a tie to the even one
RoundDiv(a, b) ==
    LET q == a \div b
        r == a % b
    IN  IF 2 * r > b THEN q + 1
        ELSE IF 2 * r < b THEN q
        ELSE IF q % 2 = 0 THEN q ELSE q + 1

\* round(p, 4) in 1/10000 and round(p, 3) in 1/1000, for p in 1/PUnit
Round4(p) == RoundDiv(p * 10, PUnit \div 1000)
Round3(p) == RoundDiv(p, PUnit \div 1000)

\* Boosted without the min(1.0, ...) caps
BoostedUncapped(features) ==
    LET p0 == features.overall_confidence
        p1 == IF /\ features.name_similarity * 10 > 8 * SimUnit
                 /\ features.treatment_category_match = 1
              THEN p0 + Frac(2, 10) ELSE p0
    IN  IF features.date_proximity * 10 > 8 * DateUnit
        THEN p1 + Frac(1, 10) ELSE p1

\* Boosted applying the second boost only when the first did not apply
BoostedExclusive(features) ==
    LET p0 == features.overall_confidence
    IN  IF /\ features.name_similarity * 10 > 8 * SimUnit
           /\ features.treatment_category_match = 1
        THEN Min(PUnit, p0 + Frac(2, 10))
        ELSE IF features.date_proximity * 10 > 8 * DateUnit
             THEN Min(PUnit, p0 + Frac(1, 10))
             ELSE p0

\* the probability after the two boosts, each capped at 1.0 (the sums are
\* exact multiples of 1/PUnit; the rounding of the double additions, at most
\* one unit in the last place, is not carried)
Boosted(features) ==
    LET p0 == features.overall_confidence
        p1 == IF /\ features.name_similarity * 10 > 8 * SimUnit
                 /\ features.treatment_category_match = 1
              THEN Min(PUnit, p0 + Frac(2, 10)) ELSE p0
    IN  IF features.date_proximity * 10 > 8 * DateUnit
        THEN Min(PUnit, p1 + Frac(1, 10)) ELSE p1

\* Classify with the two tests in the opposite order
ClassifyBottomUp(probability) ==
    IF probability >= Frac(80, 100)
    THEN [confidence |-> "Medium", recommendation |-> "Manual Review"]
    ELSE IF probability >= Frac(95, 100)
         THEN [confidence |-> "High", recommendation |-> "Auto-Accept"]
         ELSE [confidence |-> "Low", recommendation |-> "Likely No Match"]

Classify(probability) ==
    IF probability >= Frac(95, 100)
    THEN [confidence |-> "High", recommendation |-> "Auto-Accept"]
    ELSE IF probability >= Frac(80, 100)
         THEN [confidence |-> "Medium", recommendation |-> "Manual Review"]
         ELSE [confidence |-> "Low", recommendation |-> "Likely No Match"]

\* MatchResult with the High bucket cut at the caller's threshold
MatchResultThresholdBucket(features, probability, threshold, clock) ==
    [match_probability |-> Round4(probability),
     predicted_match |-> IF probability >= threshold THEN 1 ELSE 0,
     confidence_level |->
        IF probability >= threshold THEN "High"
        ELSE IF probability >= Frac(80, 100) THEN "Medium" ELSE "Low",
     recommendation |->
        IF probability >= threshold THEN "Auto-Accept"
        ELSE IF probability >= Frac(80, 100) THEN "Manual Review" ELSE "Likely No Match",
     threshold_used |-> threshold,
     feature_analysis |->
        [name_similarity |-> RoundDiv(features.name_similarity * 1000, SimUnit),
         service_similarity |-> RoundDiv(features.service_similarity * 1000, SimUnit),
         date_proximity |-> RoundDiv(features.date_proximity * 1000, DateUnit),
         amount_ratio_valid |-> features.amount_ratio_valid,
         treatment_category_match |-> features.treatment_category_match,
         overall_confidence |-> Round3(features.overall_confidence)],
     processing_timestamp |-> clock,
     api_version |-> "1.0.0-final-cors-fixed"]

\* the result built from the features and the boosted probability
MatchResult(features, probability, threshold, clock) ==
    LET class == Classify(probability)
    IN  [match_probability |-> Round4(probability),
         predicted_match |-> IF probability >= threshold THEN 1 ELSE 0,
         confidence_level |-> class.confidence,
         recommendation |-> class.recommendation,
         threshold_used |-> threshold,
         feature_analysis |->
            [name_similarity |-> RoundDiv(features.name_similarity * 1000, SimUnit),
             service_similarity |-> RoundDiv(features.service_similarity * 1000, SimUnit),
             date_proximity |-> RoundDiv(features.date_proximity * 1000, DateUnit),
             amount_ratio_valid |-> features.amount_ratio_valid,
             treatment_category_match |-> features.treatment_category_match,
             overall_confidence |-> Round3(features.overall_confidence)],
         processing_timestamp |-> clock,
         api_version |-> "1.0.0-final-cors-fixed"]

\* clock is what datetime.now() returns during the call
predict_match(reward_txn, pos_txn, threshold, clock) ==
    Only({MatchResult(features, Boosted(features), threshold, clock) :
             features \in {engineer_features(reward_txn, pos_txn)}})

----------------------------------------------------------------------------
(* The /predict and /batch-predict routes                                   *)
(*                                                                          *)
(* A JSON value is a record whose field t names its type; an object holds   *)
(* its members as further fields (a transaction's own fields are in f).     *)
(* A handler returns [response, scored]: the HTTP response and how many     *)
(* times it called api.predict_match.  An exception is [exc, msg].          *)

Null == [t |-> "null"]
Txn(fields) == [t |-> "object", f |-> fields]
Pair(reward_txn, pos_txn) ==
    [t |-> "object", reward_transaction |-> reward_txn, pos_transaction |-> pos_txn]
List(items) == [t |-> "list", items |-> items]

\* data.get('threshold', 0.95)
DefaultThreshold == Num(Frac(95, 100))

RequiredFields == <<"customer_name", "service", "amount", "date">>

NoError == [exc |-> "none", msg |-> <<>>]
ValueError(msg) == [exc |-> "ValueError", msg |-> msg]
Uncaught(name) == [exc |-> name, msg |-> <<"internal exception text">>]

\* what the text of an exception raised inside predict_match reads
ScorerFailure == Uncaught("MemoryError")

\* the required-field loop and the float() coercion of one transaction
ValidateTx(tx, name, index) ==
    LET missing == {i \in 1..Len(RequiredFields) : RequiredFields[i] \notin DOMAIN tx}
    IN  IF missing # {}
        THEN LET first == CHOOSE i \in missing : \A j \in missing : i <= j
             IN  ValueError(<<name, index, RequiredFields[first], "is required">>)
        ELSE CASE FloatRaises(tx.amount) = "no" -> NoError
               [] FloatRaises(tx.amount) \in {"TypeError", "ValueError"} ->
                      ValueError(<<name, index, "amount", "must be a number">>)
               [] OTHER -> Uncaught(FloatRaises(tx.amount))

\* tx['amount'] = float(tx['amount'])
Coerced(tx) == [tx EXCEPT !.amount = Num(Float(tx.amount)[1])]

ValidatePair(reward_txn, pos_txn, index) ==
    LET e1 == ValidateTx(reward_txn, "reward_transaction", index)
    IN  IF e1.exc # "none" THEN e1
        ELSE ValidateTx(pos_txn, "pos_transaction", index)

\* float(threshold) and the range check
ValidateThreshold(threshold) ==
    CASE FloatRaises(threshold) \in {"TypeError", "ValueError"} ->
             ValueError(<<"threshold must be a number">>)
      [] FloatRaises(threshold) = "OverflowError" -> Uncaught("OverflowError")
      [] OTHER ->
             IF 0 <= Float(threshold)[1] /\ Float(threshold)[1] <= PUnit
             THEN NoError
             ELSE ValueError(<<"threshold must be between 0 and 1">>)

\* the two except clauses both routes end with
ErrorResponse(e) ==
    IF e.exc = "ValueError"
    THEN [status |-> 400, success |-> FALSE, error |-> e.msg,
          code |-> "validation_error"]
    ELSE [status |-> 500, success |-> FALSE, error |-> <<"Internal server error">>,
          code |-> "internal_server_error"]

\* POST /predict; fault: the scorer call raises
PredictHandler(data, clock, fault) ==
    IF data.t = "null"
    THEN [response |-> ErrorResponse(ValueError(<<"No JSON data provided">>)), scored |-> 0]
    ELSE IF data.t # "object"
    THEN [response |-> ErrorResponse(Uncaught("AttributeError")), scored |-> 0]
    ELSE
    LET reward_txn == data.reward_transaction
        pos_txn == data.pos_transaction
        threshold == Get(data, "threshold", DefaultThreshold)
    IN  IF reward_txn.t # "object" \/ pos_txn.t # "object"
        THEN [response |-> ErrorResponse(ValueError(
                  <<"reward_transaction and pos_transaction must be objects">>)),
              scored |-> 0]
        ELSE
        LET e1 == ValidatePair(reward_txn.f, pos_txn.f, 0)
            e2 == ValidateThreshold(threshold)
        IN  IF e1.exc # "none" THEN [response |-> ErrorResponse(e1), scored |-> 0]
            ELSE IF e2.exc # "none" THEN [response |-> ErrorResponse(e2), scored |-> 0]
            ELSE IF fault THEN [response |-> ErrorResponse(ScorerFailure), scored |-> 1]
            ELSE [response |->
                     [status |-> 200, success |-> TRUE,
                      result |-> predict_match(Coerced(reward_txn.f), Coerced(pos_txn.f),
                                               Float(threshold)[1], clock)],
                  scored |-> 1]

\* BatchEntry numbering the pairs from 1
BatchEntryOneBased(reward_txn, pos_txn, threshold, clock, fault, i) ==
    IF fault
    THEN [pair_index |-> i + 1,
          error |-> ScorerFailure.msg,
          match_probability |-> 0,
          confidence_level |-> "Error",
          recommendation |-> "Manual Review Required"]
    ELSE [pair_index |-> i + 1] @@ predict_match(reward_txn, pos_txn, threshold, clock)

\* the entry appended for pair i (0-based): a result, or the fallback entry
\* when the scorer call raises
BatchEntry(reward_txn, pos_txn, threshold, clock, fault, i) ==
    IF fault
    THEN [pair_index |-> i,
          error |-> ScorerFailure.msg,
          match_probability |-> 0,
          confidence_level |-> "Error",
          recommendation |-> "Manual Review Required"]
    ELSE [pair_index |-> i] @@ predict_match(reward_txn, pos_txn, threshold, clock)

\* the for loop over transaction_pairs from position n (1-based) on:
\* [exc, results, scored]
RECURSIVE BatchLoop(_, _, _, _, _, _)
BatchLoop(pairs, n, threshold, clock, faults, results) ==
    IF n > Len(pairs) THEN [exc |-> NoError, results |-> results, scored |-> Len(results)]
    ELSE
    LET pair == pairs[n]
        stop(e) == [exc |-> e, results |-> results, scored |-> Len(results)]
    IN  IF pair.t # "object"
        THEN stop(ValueError(<<"transaction_pairs", n - 1, "must be an object">>))
        ELSE IF pair.reward_transaction.t # "object" \/ pair.pos_transaction.t # "object"
        THEN stop(ValueError(<<"transaction_pairs", n - 1, "transactions must be objects">>))
        ELSE
        LET e == ValidatePair(pair.reward_transaction.f, pair.pos_transaction.f, n - 1)
        IN  IF e.exc # "none" THEN stop(e)
            ELSE Only({BatchLoop(pairs, n + 1, threshold, clock, faults, appended) :
                     appended \in {Append(results,
                         BatchEntry(Coerced(pair.reward_transaction.f),
                                    Coerced(pair.pos_transaction.f),
                                    threshold, clock, faults[n], n - 1))}})

Count(results, recommendation) ==
    Cardinality({i \in 1..Len(results) : results[i].recommendation = recommendation})

\* Summary counting the fallback entries as manual reviews
SummaryCountingErrors(results) ==
    LET auto_accept == Count(results, "Auto-Accept")
    IN  [total |-> Len(results),
         auto_accept |-> auto_accept,
         manual_review |-> Count(results, "Manual Review")
                           + Count(results, "Manual Review Required"),
         likely_no_match |-> Count(results, "Likely No Match"),
         auto_accept_rate_percent |->
             IF Len(results) > 0 THEN RoundDiv(auto_accept * 100, Len(results)) ELSE 0]

Summary(results) ==
    LET auto_accept == Count(results, "Auto-Accept")
    IN  [total |-> Len(results),
         auto_accept |-> auto_accept,
         manual_review |-> Count(results, "Manual Review"),
         likely_no_match |-> Count(results, "Likely No Match"),
         auto_accept_rate_percent |->
             IF Len(results) > 0 THEN RoundDiv(auto_accept * 100, Len(results)) ELSE 0]

\* POST /batch-predict; faults[n]: the scorer call for pair n raises
BatchHandler(data, clock, faults) ==
    IF data.t = "null"
    THEN [response |-> ErrorResponse(ValueError(<<"No JSON data provided">>)), scored |-> 0]
    ELSE IF data.t # "object"
    THEN [response |-> ErrorResponse(Uncaught("AttributeError")), scored |-> 0]
    ELSE
    LET transaction_pairs == data.transaction_pairs
        threshold == Get(data, "threshold", DefaultThreshold)
        e2 == ValidateThreshold(threshold)
    IN  IF transaction_pairs.t # "list"
        THEN [response |-> ErrorResponse(ValueError(<<"transaction_pairs must be a list">>)),
              scored |-> 0]
        ELSE IF e2.exc # "none" THEN [response |-> ErrorResponse(e2), scored |-> 0]
        ELSE
        Only({
            IF loop.exc.exc # "none"
            THEN [response |-> ErrorResponse(loop.exc), scored |-> loop.scored]
            ELSE [response |->
                     [status |-> 200, success |-> TRUE,
                      results |-> loop.results,
                      summary |-> Summary(loop.results),
                      processing_info |->
                         [total_pairs |-> Len(transaction_pairs.items),
                          successful_predictions |->
                              Cardinality({i \in 1..Len(loop.results) :
                                              "error" \notin DOMAIN loop.results[i]}),
                          threshold_used |-> Float(threshold)[1],
                          api_version |-> "1.0.0-final-cors-fixed"]],
                  scored |-> loop.scored] :
            loop \in {BatchLoop(transaction_pairs.items, 1, Float(threshold)[1], clock,
                                faults, <<>>)}})

----------------------------------------------------------------------------
(* Spec: the service handling one request after another                     *)

MaxPairs == 2
MaxClock == 1

Record(name, service, amount, date) ==
    [customer_name |-> name, service |-> service, amount |-> amount, date |-> date]

Without(tx, field) == [f \in DOMAIN tx \ {field} |-> tx[f]]

EmptyRecord == Record(<<>>, <<>>, Num(0), EmptyDate)

\* "Al Roy", "Botox", 35.0, "2024-08-10"
SampleReward ==
    Record(<<"A","l"," ","R","o","y">>, <<"B","o","t","o","x">>, Num(35),
           DateStr("ymd", 10, 0))
\* "Roy, Al", "Botox", 350.0, "2024-08-10 14:30:00"
SamplePos ==
    Record(<<"R","o","y",","," ","A","l">>, <<"B","o","t","o","x">>, Num(350),
           DateStr("iso_space", 10, 29))
\* "Roy, Al", "Dysport", 0, "2024-08-20"
SamplePosFar ==
    Record(<<"R","o","y",","," ","A","l">>, <<"D","y","s","p","o","r","t">>, Num(0),
           DateStr("ymd", 20, 0))
\* "Bo Lee", "Dysport", 0, "2024-08-20"
SamplePosOther ==
    Record(<<"B","o"," ","L","e","e">>, <<"D","y","s","p","o","r","t">>, Num(0),
           DateStr("ymd", 20, 0))

\* the two records of the /test route
ReferenceReward ==
    Record(<<"S","a","r","a","h"," ","J","o","h","n","s","o","n">>,
           <<"B","o","t","o","x"," ","T","r","e","a","t","m","e","n","t">>,
           Num(35), DateStr("ymd", 15, 0))
ReferencePos ==
    Record(<<"J","o","h","n","s","o","n",","," ","S","a","r","a","h">>,
           <<"N","e","u","r","o","t","o","x","i","n"," ","I","n","j","e","c","t","i","o","n">>,
           Num(350), DateStr("iso_space", 15, 29))

WellFormedPairs ==
    { Pair(Txn(SampleReward), Txn(SamplePos)),
      Pair(Txn(SampleReward), Txn(SamplePosFar)),
      Pair(Txn(SampleReward), Txn(SamplePosOther)),
      \* amount "35": a string float() accepts
      Pair(Txn([SampleReward EXCEPT !.amount = [k |-> "numstr", v |-> 35]]), Txn(SamplePos)) }

MalformedPairs ==
    { \* pos_transaction without `service`
      Pair(Txn(SampleReward), Txn(Without(SamplePos, "service"))),
      \* amount "abc"
      Pair(Txn(SampleReward), Txn([SamplePos EXCEPT !.amount = [k |-> "text", v |-> 0]])),
      \* pos_transaction: null
      Pair(Txn(SampleReward), Null) }

\* an integer amount beyond the range of a double
OverflowPairs ==
    { Pair(Txn([SampleReward EXCEPT !.amount = [k |-> "huge", v |-> 0]]), Txn(SamplePos)) }

\* a pair that is a JSON string
NonObjectPairs == { [t |-> "string"] }

PairValues == WellFormedPairs \cup MalformedPairs \cup OverflowPairs \cup NonObjectPairs

GoodThresholds == { Num(Frac(1, 2)) }
BadThresholds == { Num(Frac(3, 2)), [k |-> "text", v |-> 0] }
OverflowThresholds == { [k |-> "huge", v |-> 0] }
ThresholdValues == GoodThresholds \cup BadThresholds \cup OverflowThresholds

\* the members of a request body, with and without `threshold`
WithThreshold(members) ==
    {members} \cup {members @@ [threshold |-> th] : th \in ThresholdValues}

PredictBodies ==
    {Null, [t |-> "array"]}
    \cup UNION {WithThreshold(pr) : pr \in PairValues \ NonObjectPairs}

RECURSIVE SeqsOfLen(_, _)
SeqsOfLen(S, n) ==
    IF n = 0 THEN {<<>>}
    ELSE {Append(q, x) : q \in SeqsOfLen(S, n - 1), x \in S}

PairLists == UNION {SeqsOfLen(PairValues, n) : n \in 0..MaxPairs}

BatchBodies ==
    {Null, [t |-> "array"]}
    \cup WithThreshold([t |-> "object", transaction_pairs |-> Null])
    \cup UNION {WithThreshold([t |-> "object", transaction_pairs |-> List(l)]) :
                    l \in PairLists}

\* how many scorer calls a request can lead to
MaxCalls(req) ==
    IF req.route = "/predict" THEN 1
    ELSE IF req.data.t = "object" /\ req.data.transaction_pairs.t = "list"
         THEN Len(req.data.transaction_pairs.items) ELSE 0

Requests ==
    {[route |-> "/predict", data |-> b] : b \in PredictBodies}
    \cup {[route |-> "/batch-predict", data |-> b] : b \in BatchBodies}

NoRequest == [route |-> "none", data |-> Null]
NoResponse == [status |-> 0]

RatioIdle == s1 = <<>> /\ s2 = <<>> /\ rpc = "call" /\ score = 0

ScoreIdle ==
    /\ reward = EmptyRecord
    /\ pos = EmptyRecord
    /\ thr = 0
    /\ out = <<>>
    /\ prevThr = 0
    /\ prevOut = <<>>

HttpIdle ==
    /\ request = NoRequest
    /\ env = <<>>
    /\ hpc = "idle"
    /\ response = NoResponse
    /\ scored = 0

DateIdle == dstr = EmptyDate /\ dpc = "call" /\ dres = Returns(<<>>)
FeatIdle ==
    /\ rtx = EmptyRecord
    /\ ptx = EmptyRecord
    /\ fpc = "call"
    /\ fres = Returns(<<>>)
ChatIdle ==
    /\ contexts = <<>>
    /\ turns = <<>>
    /\ expired = 0
    /\ chatReply = 0
    /\ inflight = <<>>
TicketIdle ==
    /\ support_tickets = {}
    /\ creations = 0
    /\ ticketRequest = <<>>
    /\ ticketReply = 0
SupportIdle == ChatIdle /\ TicketIdle
ChurnIdle == user_data = <<>> /\ prediction = <<>>
ConcIdle ==
    /\ cargs = <<>>
    /\ cpc = <<>>
    /\ frames = <<>>
    /\ cout = <<>>

Init ==
    /\ HttpIdle
    /\ DateIdle
    /\ FeatIdle
    /\ now = 0
    /\ SupportIdle
    /\ ChurnIdle
    /\ RatioIdle
    /\ ScoreIdle
    /\ ConcIdle

\* the wall clock advances
Tick ==
    /\ now < MaxClock
    /\ now' = now + 1
    /\ UNCHANGED <<ratioVars, scoreVars, concVars, httpVars, dateVars, featVars,
                 supportVars, churnVars>>

\* a request arrives
Receive ==
    /\ hpc = "idle"
    /\ \E req \in Requests :
        /\ request' = req
        /\ env' \in SeqsOfLen(BOOLEAN, MaxCalls(req))
    /\ hpc' = "received"
    /\ UNCHANGED <<response, scored, ratioVars, scoreVars, concVars, now, dateVars, featVars,
                 supportVars, churnVars>>

\* @app.route('/predict')
PredictRoute ==
    /\ hpc = "received"
    /\ request.route = "/predict"
    /\ \E h \in {PredictHandler(request.data, now, env[1])} :
           response' = h.response /\ scored' = h.scored
    /\ hpc' = "replied"
    /\ UNCHANGED <<request, env, ratioVars, scoreVars, concVars, now, dateVars, featVars,
                 supportVars, churnVars>>

\* @app.route('/batch-predict')
BatchRoute ==
    /\ hpc = "received"
    /\ request.route = "/batch-predict"
    /\ \E h \in {BatchHandler(request.data, now, env)} :
           response' = h.response /\ scored' = h.scored
    /\ hpc' = "replied"
    /\ UNCHANGED <<request, env, ratioVars, scoreVars, concVars, now, dateVars, featVars,
                 supportVars, churnVars>>

\* the response is sent; the service keeps nothing of the request
Reply ==
    /\ hpc = "replied"
    /\ hpc' = "idle"
    /\ request' = NoRequest
    /\ env' = <<>>
    /\ response' = NoResponse
    /\ scored' = 0
    /\ UNCHANGED <<ratioVars, scoreVars, concVars, now, dateVars, featVars, supportVars, churnVars>>

Next == Tick \/ Receive \/ PredictRoute \/ BatchRoute \/ Reply

Spec == Init /\ [][Next]_vars

----------------------------------------------------------------------------
(* SpecScore: predict_match called on two records, and called again on the *)
(* same two records, while the wall clock advances.                         *)

RewardNames == { <<"A","l"," ","R","o","y">>, <<"A","l"," ","R","a","y">> }
PosNames == { <<"R","o","y",","," ","A","l">>, <<"a","l"," ","r","o","y"," ","j","r">>,
              <<"B","o"," ","L","e","e">> }
RewardServices == { <<"B","o","t","o","x">>, <<"I","V"," ","d","r","i","p">> }
PosServices == { <<"B","o","t","o","x">>, <<"D","y","s","p","o","r","t">>,
                 <<"i","v"," ","d","r","i","p","s">> }
RewardAmounts == { Num(35), Num(400) }
PosAmounts == { Num(350), Num(0), [k |-> "text", v |-> 0] }
RewardDates == { DateStr("ymd", 10, 0), DateStr("iso_T", 12, 29) }
PosDates == { DateStr("iso_space", 10, 29), DateStr("mdy", 10, 0),
              DateStr("ymd", 20, 0), DateStr("text", 0, 0) }
Thresholds == { Frac(1, 2), Frac(95, 100), PUnit }

RewardRecords ==
    {Record(n, s, a, d) : n \in RewardNames, s \in RewardServices,
                          a \in RewardAmounts, d \in RewardDates}
PosRecords ==
    {Record(n, s, a, d) : n \in PosNames, s \in PosServices,
                          a \in PosAmounts, d \in PosDates}

\* the first call takes the default threshold (threshold=0.95)
\* every pair of the sample records, and the pair of the /test route
\* a pair five days and 22 hours apart whose probability, 0.94995..., is
\* reported as 0.95: "Al Roy", "IV drip", 35.0, "2024-08-10" and
\* "Roy, Al", "iv drips", 350.0, "2024-08-15 22:00:00"
NearHighReward == [SampleReward EXCEPT !.service = <<"I","V"," ","d","r","i","p">>]
NearHighPos ==
    [SamplePos EXCEPT !.service = <<"i","v"," ","d","r","i","p","s">>,
                      !.date = DateStr("iso_space", 15, 44)]

ScorePairs ==
    (RewardRecords \X PosRecords)
        \cup {<<ReferenceReward, ReferencePos>>, <<NearHighReward, NearHighPos>>}

ScoreInit ==
    /\ \E pair \in ScorePairs : reward = pair[1] /\ pos = pair[2]
    /\ thr = Float(DefaultThreshold)[1]
    /\ out = <<>>
    /\ prevThr = 0
    /\ prevOut = <<>>
    /\ now = 0
    /\ SupportIdle
    /\ ChurnIdle
    /\ RatioIdle
    /\ HttpIdle
    /\ DateIdle
    /\ FeatIdle
    /\ ConcIdle

\* api.predict_match(reward, pos, thr)
CallPredict ==
    /\ out = <<>>
    /\ out' = <<predict_match(reward, pos, thr, now)>>
    /\ UNCHANGED <<reward, pos, thr, prevThr, prevOut, ratioVars, concVars, httpVars, now,
                 dateVars, featVars, supportVars, churnVars>>

\* a second call on the same records, with any threshold
CallPredictAgain ==
    /\ out # <<>>
    /\ prevOut = <<>>
    /\ \E t \in Thresholds :
        /\ thr' = t
        /\ out' = <<predict_match(reward, pos, t, now)>>
    /\ prevThr' = thr
    /\ prevOut' = out
    /\ UNCHANGED <<reward, pos, ratioVars, concVars, httpVars, now, dateVars, featVars,
                 supportVars, churnVars>>

ScoreNext == Tick \/ CallPredict \/ CallPredictAgain

SpecScore == ScoreInit /\ [][ScoreNext]_vars

----------------------------------------------------------------------------
(* SpecConc: NCalls scoring calls running concurrently (one per request     *)
(* thread).  A call runs engineer_features, keeps the result in its local   *)
(* variable `features`, then boosts, classifies and returns.                *)

NCalls == 2

ConcArgs ==
    { [reward |-> SampleReward, pos |-> SamplePos, threshold |-> Frac(95, 100)],
      [reward |-> SampleReward, pos |-> SamplePosFar, threshold |-> Frac(1, 2)],
      [reward |-> SampleReward, pos |-> SamplePosOther, threshold |-> Frac(1, 2)],
      [reward |-> [SampleReward EXCEPT !.amount = Num(400)], pos |-> SamplePos,
       threshold |-> PUnit] }

\* `features` kept in one place for all calls (an attribute of the api object)
FeaturesSlotShared(c) == 1

\* where call c keeps `features`: a local variable, so a slot of its own
FeaturesSlot(c) == c

ConcInit ==
    /\ cargs \in [1..NCalls -> ConcArgs]
    /\ cpc = [c \in 1..NCalls |-> "start"]
    /\ frames = [c \in 1..NCalls |-> <<>>]
    /\ cout = [c \in 1..NCalls |-> <<>>]
    /\ now = 0
    /\ SupportIdle
    /\ ChurnIdle
    /\ RatioIdle
    /\ ScoreIdle
    /\ HttpIdle
    /\ DateIdle
    /\ FeatIdle

\* features = self.engineer_features(reward_txn, pos_txn)
ConcEngineer(c) ==
    /\ cpc[c] = "start"
    /\ frames' = [frames EXCEPT
                    ![FeaturesSlot(c)] = <<engineer_features(cargs[c].reward, cargs[c].pos)>>]
    /\ cpc' = [cpc EXCEPT ![c] = "features"]
    /\ UNCHANGED <<cargs, cout, ratioVars, scoreVars, httpVars, now, dateVars, featVars,
                 supportVars, churnVars>>

\* the boosts, the classification and the return
ConcReturn(c) ==
    /\ cpc[c] = "features"
    /\ \E features \in {frames[FeaturesSlot(c)][1]} :
           cout' = [cout EXCEPT ![c] =
                       <<MatchResult(features, Boosted(features), cargs[c].threshold, now)>>]
    /\ cpc' = [cpc EXCEPT ![c] = "done"]
    /\ UNCHANGED <<cargs, frames, ratioVars, scoreVars, httpVars, now, dateVars, featVars,
                 supportVars, churnVars>>

ConcNext == \E c \in 1..NCalls : ConcEngineer(c) \/ ConcReturn(c)

SpecConc == ConcInit /\ [][ConcNext]_vars

----------------------------------------------------------------------------
(* SpecRatio: ratio() applied to every pair of strings of at most MaxLen   *)
(* characters over Alphabet.                                                *)

MaxLen == 3
Alphabet == {"a", "b", "A", " "}

RECURSIVE StringsOfLen(_)
StringsOfLen(n) ==
    IF n = 0 THEN {<<>>}
    ELSE {Append(s, c) : s \in StringsOfLen(n - 1), c \in Alphabet}

Strings == UNION {StringsOfLen(n) : n \in 0..MaxLen}

RatioInit ==
    /\ s1 \in Strings
    /\ s2 \in Strings
    /\ rpc = "call"
    /\ score = 0
    /\ ScoreIdle
    /\ HttpIdle
    /\ DateIdle
    /\ FeatIdle
    /\ ConcIdle
    /\ now = 0
    /\ SupportIdle
    /\ ChurnIdle

CallRatio ==
    /\ rpc = "call"
    /\ rpc' = "done"
    /\ score' = ratio(s1, s2)
    /\ UNCHANGED <<s1, s2, scoreVars, concVars, httpVars, now, dateVars, featVars,
                 supportVars, churnVars>>

RatioNext == CallRatio

SpecRatio == RatioInit /\ [][RatioNext]_vars

----------------------------------------------------------------------------
(* SpecDate: one call of parse_date                                         *)

DateForms ==
    { "empty", "null", "number", "text", "text_sep", "mdy_time",
      "iso_space", "iso_T", "iso_frac", "iso_tz",
      "ymd", "mdy", "dmy", "mdy_dot", "mdy_dash" }
DateDays == { 10, 12, 20 }
DateHalfHours == { 0, 29 }
DateInputs == {DateStr(f, d, h) : f \in DateForms, d \in DateDays, h \in DateHalfHours}

DateInit ==
    /\ dstr \in DateInputs
    /\ dpc = "call"
    /\ dres = Returns(<<>>)
    /\ now = 0
    /\ SupportIdle
    /\ ChurnIdle
    /\ RatioIdle
    /\ ScoreIdle
    /\ HttpIdle
    /\ ConcIdle
    /\ FeatIdle

\* self.parse_date(date_str)
CallParseDate ==
    /\ dpc = "call"
    /\ dpc' = "done"
    /\ dres' = ParseOutcome(dstr)
    /\ UNCHANGED <<dstr, ratioVars, scoreVars, concVars, httpVars, featVars, now,
                 supportVars, churnVars>>

DateNext == CallParseDate

SpecDate == DateInit /\ [][DateNext]_vars

----------------------------------------------------------------------------
(* SpecFeatures: one call of engineer_features on two records that may lack *)
(* any field                                                                *)

\* the record holding the fields whose option is <<value>> and not <<>>
OptRecord(opts) == [f \in {g \in DOMAIN opts : opts[g] # <<>>} |-> opts[f][1]]

OptRecords(names, services, amounts, dates) ==
    {OptRecord([customer_name |-> n, service |-> s, amount |-> a, date |-> d]) :
        n \in names, s \in services, a \in amounts, d \in dates}

FeatRewardRecords ==
    OptRecords({<<>>, <<SampleReward.customer_name>>},
               {<<>>, <<SampleReward.service>>},
               {<<>>, <<Num(35)>>, <<Num(0)>>, <<[k |-> "null", v |-> 0]>>},
               {<<>>, <<DateStr("ymd", 10, 0)>>, <<DateStr("iso_tz", 10, 29)>>})

FeatPosRecords ==
    OptRecords({<<>>, <<SamplePos.customer_name>>, <<SamplePosOther.customer_name>>},
               {<<>>, <<SamplePos.service>>, <<SamplePosFar.service>>},
               {<<>>, <<Num(350)>>, <<Num(0)>>, <<Num(-350)>>, <<[k |-> "text", v |-> 0]>>},
               {<<>>, <<DateStr("iso_space", 10, 29)>>, <<DateStr("text", 0, 0)>>,
                <<DateStr("ymd", 20, 0)>>})

\* the sample records with amounts on both sides of 5% and 50%, of both signs
FeatAmountPairs ==
    {<<[SampleReward EXCEPT !.amount = Num(a)], [SamplePos EXCEPT !.amount = Num(b)]>> :
        a \in {-35, 34, 35, 175, 176}, b \in {-350, 350, 700}}

\* the sample records with names of no, one and two commas on either side
FeatNamePairs ==
    {<<[SampleReward EXCEPT !.customer_name = a], [SamplePos EXCEPT !.customer_name = b]>> :
        a \in { <<"A","l"," ","R","o","y">>, <<"R","o","y",","," ","A","l">> },
        b \in { <<"R","o","y",","," ","A","l">>,
                <<" ","R","O","Y"," ",",","A","l"," ">>,
                <<"R","o","y",","," ","A","l",","," ","J","r">>,
                <<"A","l"," ","R","o","y">>,
                <<"R","o","y",",">> }}

\* the sample records with services of one, two and no treatment category
FeatServicePairs ==
    {<<[SampleReward EXCEPT !.service = a], [SamplePos EXCEPT !.service = b]>> :
        a \in { <<"B","o","t","o","x">>,
                <<"B","O","T","O","X"," ","5","0">>,
                <<"L","i","p"," ","f","i","l","l","e","r">>,
                <<"B","o","t","o","x"," ","+"," ","f","i","l","l","e","r">>,
                <<"F","a","c","i","a","l">> },
        b \in { <<"D","y","s","p","o","r","t">>,
                <<"J","u","v","e","d","e","r","m">>,
                <<"L","a","s","e","r">>,
                <<"F","a","c","i","a","l">> }}

\* the sample records with dates equal, half an hour, just under seven days,
\* seven days and ten days apart, with and without a UTC offset
FeatDatePairs ==
    {<<[SampleReward EXCEPT !.date = a], [SamplePos EXCEPT !.date = b]>> :
        a \in { DateStr("iso_space", 10, 29), DateStr("iso_tz", 10, 29),
                DateStr("ymd", 10, 0), DateStr("text", 0, 0) },
        b \in { DateStr("iso_space", 10, 29), DateStr("iso_space", 10, 30),
                DateStr("iso_space", 17, 28), DateStr("iso_space", 17, 29),
                DateStr("ymd", 20, 0), DateStr("iso_tz", 10, 29),
                DateStr("text", 0, 0) }}

FeatPairs ==
    (FeatRewardRecords \X FeatPosRecords)
        \cup FeatAmountPairs \cup FeatNamePairs \cup FeatServicePairs \cup FeatDatePairs

FeatInit ==
    /\ \E pair \in FeatPairs : rtx = pair[1] /\ ptx = pair[2]
    /\ fpc = "call"
    /\ fres = Returns(<<>>)
    /\ now = 0
    /\ SupportIdle
    /\ ChurnIdle
    /\ RatioIdle
    /\ ScoreIdle
    /\ HttpIdle
    /\ ConcIdle
    /\ DateIdle

\* self.engineer_features(reward_txn, pos_txn)
CallEngineer ==
    /\ fpc = "call"
    /\ fpc' = "done"
    /\ fres' = EngineerOutcome(rtx, ptx)
    /\ UNCHANGED <<rtx, ptx, ratioVars, scoreVars, concVars, httpVars, dateVars, now,
                 supportVars, churnVars>>

FeatNext == CallEngineer

SpecFeatures == FeatInit /\ [][FeatNext]_vars

----------------------------------------------------------------------------
(* AICustomerSupportBot: the ticket store self.support_tickets              *)
(* The dict is the set of its values; a ticket id is the pair of the second *)
(* of the clock reading and user_id[:8].                                    *)

\* clock readings per second: the clock is finer than the %S of a ticket id
TicksPerSecond == 2
\* datetime.now().strftime('%Y%m%d_%H%M%S')
Second(clock) == clock \div TicksPerSecond
\* f"TICKET_{...}_{user_id[:8]}"
TicketId(clock, user_id) == <<Second(clock), SubSeq(user_id, 1, Min(8, Len(user_id)))>>

\* the values of SupportTicketStatus and of IssuePriority
StatusValues == {"open", "in_progress", "resolved", "escalated"}
PriorityValues == {"low", "medium", "high", "urgent"}

\* SupportTicket(...): status OPEN, no resolution, no satisfaction_score
SupportTicket(ticket_id, user_id, subject, priority, clock) ==
    [id |-> ticket_id, user_id |-> user_id, subject |-> subject, status |-> "open",
     priority |-> priority, created_at |-> clock, updated_at |-> clock,
     resolution |-> <<>>, satisfaction_score |-> <<>>]

\* self.support_tickets[ticket_id] = ticket
Put(store, ticket) == {x \in store : x.id # ticket.id} \cup {ticket}

\* create_auto_ticket: the ticket of a chat message, priority by urgency
create_auto_ticket(store, user_id, urgency, clock) ==
    Put(store, SupportTicket(TicketId(clock, user_id), user_id, "Auto-generated",
                             CASE urgency = "high" -> "high"
                               [] urgency = "critical" -> "urgent"
                               [] OTHER -> "low",
                             clock))

\* create_support_ticket: [code, store]; 400 on a missing field, 500 when
\* IssuePriority(priority) raises, else the ticket is stored
create_support_ticket(store, data, clock) ==
    IF data.user_id = <<>> \/ data.subject = "" \/ data.description = ""
    THEN [code |-> 400, store |-> store]
    ELSE IF data.priority \notin PriorityValues
    THEN [code |-> 500, store |-> store]
    ELSE [code |-> 200,
          store |-> Put(store, SupportTicket(TicketId(clock, data.user_id), data.user_id,
                                             data.subject, data.priority, clock))]

\* the three `if ... in data` assignments with the resolution and the
\* satisfaction_score assigned before the status is converted
UpdateFieldsStatusLast(ticket, data) ==
    LET t1 == IF "resolution" \in DOMAIN data
              THEN [ticket EXCEPT !.resolution = <<data.resolution>>] ELSE ticket
        t2 == IF "satisfaction_score" \in DOMAIN data
              THEN [t1 EXCEPT !.satisfaction_score = <<data.satisfaction_score>>] ELSE t1
    IN  IF "status" \in DOMAIN data
        THEN IF data.status \in StatusValues
             THEN Returns([t2 EXCEPT !.status = data.status])
             ELSE Raises("ValueError", t2)
        ELSE Returns(t2)

\* the three `if ... in data` assignments on the ticket object, in order:
\* SupportTicketStatus(data['status']) raises before anything is assigned
UpdateFields(ticket, data) ==
    IF "status" \in DOMAIN data /\ data.status \notin StatusValues
    THEN Raises("ValueError", ticket)
    ELSE LET t1 == IF "status" \in DOMAIN data
                   THEN [ticket EXCEPT !.status = data.status] ELSE ticket
             t2 == IF "resolution" \in DOMAIN data
                   THEN [t1 EXCEPT !.resolution = <<data.resolution>>] ELSE t1
         IN  Returns(IF "satisfaction_score" \in DOMAIN data
                     THEN [t2 EXCEPT !.satisfaction_score = <<data.satisfaction_score>>]
                     ELSE t2)

\* update_ticket: [code, store]; the ticket object is changed in place, so
\* what was assigned before an exception stays in the store
update_ticket(store, ticket_id, data, clock) ==
    IF \A x \in store : x.id # ticket_id
    THEN [code |-> 404, store |-> store]
    ELSE \* the one ticket of that id, and what the assignments make of it
         Only({IF fields.exc # "none"
               THEN [code |-> 500, store |-> Put(store, fields.value)]
               ELSE [code |-> 200,
                     store |-> Put(store, [fields.value EXCEPT !.updated_at = clock])] :
               fields \in {UpdateFields(x, data) : x \in {y \in store : y.id = ticket_id}}})

----------------------------------------------------------------------------
(* AICustomerSupportBot: the conversation context kept in Redis             *)

\* `if len(context) > 10: context = context[-10:]`
ContextLimit == 10

\* the truncation keeping the first entries instead of the last
TruncateKeepOldest(context) ==
    IF Len(context) > ContextLimit THEN SubSeq(context, 1, ContextLimit) ELSE context

Truncate(context) ==
    IF Len(context) > ContextLimit
    THEN SubSeq(context, Len(context) - ContextLimit + 1, Len(context))
    ELSE context

\* redis get + json.loads: the stored list, [] when the key is absent
get_conversation_context(store, session_id) == store[session_id]

\* the entry of a turn (the fields taken from the model's answer are left out)
ContextEntry(message, clock) == [timestamp |-> clock, user_message |-> message]

\* context.append(...), the truncation, and setex of the result
SetContext(store, session_id, context, entry) ==
    [store EXCEPT ![session_id] = Truncate(Append(context, entry))]

update_conversation_context(store, session_id, entry) ==
    SetContext(store, session_id, get_conversation_context(store, session_id), entry)

\* handle_chat_request from the request to the response: 400 on a missing
\* field; otherwise the context is updated, a ticket is created when the
\* intent analysis asks for one, and the clock has been read
HandleChat(user_id, message, session_id, requires_ticket) ==
    IF user_id = <<>> \/ message = "" \/ session_id = ""
    THEN /\ chatReply' = 400
         /\ UNCHANGED <<contexts, turns, support_tickets, creations, now>>
    ELSE /\ chatReply' = 200
         /\ contexts' = update_conversation_context(contexts, session_id,
                                                    ContextEntry(message, now))
         /\ turns' = [turns EXCEPT ![session_id] = Append(@, ContextEntry(message, now))]
         /\ now' = now + 1
         /\ IF requires_ticket
            THEN /\ support_tickets' = create_auto_ticket(support_tickets, user_id, "low", now)
                 /\ creations' = creations + 1
            ELSE UNCHANGED <<support_tickets, creations>>

----------------------------------------------------------------------------
(* SpecChat: chat requests handled one after the other                      *)

MaxTurns == 11
MaxExpiries == 1
Sessions == {"s1", "s2"}
ChatUser == <<"u","s","e","r","0","0","0","1","a">>

ChatInit ==
    /\ contexts = [s \in Sessions |-> <<>>]
    /\ turns = [s \in Sessions |-> <<>>]
    /\ expired = 0
    /\ chatReply = 0
    /\ inflight = <<>>
    /\ now = 0
    /\ TicketIdle
    /\ ChurnIdle
    /\ RatioIdle
    /\ ScoreIdle
    /\ HttpIdle
    /\ ConcIdle
    /\ DateIdle
    /\ FeatIdle

\* POST /api/support/chat, with or without a session_id, needing no ticket
ChatTurn ==
    /\ now < MaxTurns
    /\ \E session_id \in Sessions \cup {""} :
          HandleChat(ChatUser, "help", session_id, FALSE)
    /\ UNCHANGED <<expired, inflight, ticketRequest, ticketReply, apiVars, churnVars>>

\* the hour of the setex has passed: Redis drops the key
ChatExpire ==
    /\ expired < MaxExpiries
    /\ \E session_id \in Sessions :
        /\ contexts[session_id] # <<>>
        /\ contexts' = [contexts EXCEPT ![session_id] = <<>>]
    /\ expired' = expired + 1
    /\ UNCHANGED <<turns, chatReply, inflight, ticketVars, apiVars, churnVars, now>>

ChatNext == ChatTurn \/ ChatExpire

SpecChat == ChatInit /\ [][ChatNext]_vars

----------------------------------------------------------------------------
(* SpecChatConc: chat requests handled by concurrent threads; the get and   *)
(* the setex of update_conversation_context are separate steps              *)

ChatRequests == 3
ChatMessages == <<"first", "second", "third", "fourth">>

ChatConcInit ==
    /\ \E session_of \in [1..ChatRequests -> Sessions] :
          inflight = [r \in 1..ChatRequests |->
                        [session_id |-> session_of[r], message |-> ChatMessages[r],
                         pc |-> "arrived", context |-> <<>>]]
    /\ contexts = [s \in Sessions |-> <<>>]
    /\ turns = [s \in Sessions |-> <<>>]
    /\ expired = 0
    /\ chatReply = 0
    /\ now = 0
    /\ TicketIdle
    /\ ChurnIdle
    /\ RatioIdle
    /\ ScoreIdle
    /\ HttpIdle
    /\ ConcIdle
    /\ DateIdle
    /\ FeatIdle

\* context = self.get_conversation_context(session_id)
ChatGet ==
    /\ \E r \in DOMAIN inflight :
        /\ inflight[r].pc = "arrived"
        /\ inflight' = [inflight EXCEPT
              ![r].context = get_conversation_context(contexts, inflight[r].session_id),
              ![r].pc = "read"]
    /\ UNCHANGED <<contexts, turns, expired, chatReply, ticketVars, apiVars, churnVars, now>>

\* context.append(...); self.redis_client.setex(context_key, 3600, ...)
ChatSetex ==
    /\ \E r \in DOMAIN inflight :
        /\ inflight[r].pc = "read"
        /\ contexts' = SetContext(contexts, inflight[r].session_id, inflight[r].context,
                                  ContextEntry(inflight[r].message, now))
        /\ turns' = [turns EXCEPT ![inflight[r].session_id] =
                        Append(@, ContextEntry(inflight[r].message, now))]
        /\ inflight' = [inflight EXCEPT ![r].pc = "done"]
    /\ chatReply' = 200
    /\ UNCHANGED <<expired, ticketVars, apiVars, churnVars, now>>

ChatConcNext == ChatGet \/ ChatSetex

SpecChatConc == ChatConcInit /\ [][ChatConcNext]_vars

----------------------------------------------------------------------------
(* SpecTickets: the ticket routes, and chat turns that need a ticket        *)

MaxTicks == 2
MaxCreations == 2

\* two users sharing the first eight characters of user_id, and a third
TicketUsers ==
    { <<"u","s","e","r","0","0","0","1","a">>,
      <<"u","s","e","r","0","0","0","1","b">>,
      <<"b","o","b">> }

\* POST bodies: with and without user_id, with a priority IssuePriority has
\* and one it has not
CreateBodies ==
    {[user_id |-> u, subject |-> "Help", description |-> "It fails", priority |-> p] :
        u \in TicketUsers \cup {<<>>}, p \in {"medium", "asap"}}

\* PUT bodies: a status, a resolution with a score, and an invalid status
\* together with a resolution and a score
UpdateBodies ==
    { [status |-> "resolved"],
      [resolution |-> "done", satisfaction_score |-> 5],
      [status |-> "closed", resolution |-> "done", satisfaction_score |-> 5] }

\* a ticket id no creation produces
UnknownTicket == <<0, <<"n","o","n","e">>>>

TicketInit ==
    /\ support_tickets = {}
    /\ creations = 0
    /\ ticketRequest = <<>>
    /\ ticketReply = 0
    /\ contexts = [s \in Sessions |-> <<>>]
    /\ turns = [s \in Sessions |-> <<>>]
    /\ expired = 0
    /\ chatReply = 0
    /\ inflight = <<>>
    /\ now = 0
    /\ ChurnIdle
    /\ RatioIdle
    /\ ScoreIdle
    /\ HttpIdle
    /\ ConcIdle
    /\ DateIdle
    /\ FeatIdle

\* the clock advances
TicketTick ==
    /\ now < MaxTicks
    /\ now' = now + 1
    /\ UNCHANGED <<supportVars, apiVars, churnVars>>

\* POST /api/support/tickets
CreateTicket ==
    /\ creations < MaxCreations
    /\ \E data \in CreateBodies :
        \E outcome \in {create_support_ticket(support_tickets, data, now)} :
            /\ support_tickets' = outcome.store
            /\ creations' = IF outcome.code = 200 THEN creations + 1 ELSE creations
            /\ ticketRequest' = [op |-> "create", ticket_id |-> TicketId(now, data.user_id),
                                 data |-> data]
            /\ ticketReply' = outcome.code
    /\ UNCHANGED <<chatVars, apiVars, churnVars, now>>

\* POST /api/support/chat with a message whose analysis has requires_ticket
ChatTicket ==
    /\ creations < MaxCreations
    /\ now < MaxTicks
    /\ \E user_id \in TicketUsers :
        /\ HandleChat(user_id, "help", "s1", TRUE)
        /\ ticketRequest' = [op |-> "chat", ticket_id |-> TicketId(now, user_id),
                             data |-> [user_id |-> user_id]]
    /\ ticketReply' = 200
    /\ UNCHANGED <<expired, inflight, apiVars, churnVars>>

\* PUT /api/support/tickets/<ticket_id>
UpdateTicket ==
    /\ \E ticket_id \in {x.id : x \in support_tickets} \cup {UnknownTicket},
          data \in UpdateBodies :
        \E outcome \in {update_ticket(support_tickets, ticket_id, data, now)} :
            /\ support_tickets' = outcome.store
            /\ ticketRequest' = [op |-> "update", ticket_id |-> ticket_id, data |-> data]
            /\ ticketReply' = outcome.code
    /\ UNCHANGED <<creations, chatVars, apiVars, churnVars, now>>

TicketNext == TicketTick \/ CreateTicket \/ ChatTicket \/ UpdateTicket

SpecTickets == TicketInit /\ [][TicketNext]_vars

----------------------------------------------------------------------------
(* ChurnPredictionModel: the heuristic churn probability, the risk level,   *)
(* the risk factors and the intervention priority.  A probability is an     *)
(* integer count of 1/ChurnUnit; engagement_score is in tenths and          *)
(* payment_on_time_rate in percent.  confidence_score and                   *)
(* predicted_churn_date do not enter the priority and are left out.         *)

ChurnUnit == 8000

\* self.risk_thresholds
risk_thresholds ==
    [critical |-> (8 * ChurnUnit) \div 10, high |-> (6 * ChurnUnit) \div 10,
     medium |-> (4 * ChurnUnit) \div 10, low |-> (2 * ChurnUnit) \div 10]

\* heuristic_churn_prediction: 0.1 + 0.3*engagement + 0.25*usage +
\* 0.2*support + 0.25*value, clamped to [0, 1]; the four factors are kept
\* as multiples of 1/300, 1/200, 1/50 and 1/400
heuristic_churn_prediction(u) ==
    LET engagement_factor ==
            9 * (10 - u.engagement_score) + 3 * Min(u.days_since_last_login, 30)
                + 12 * Max(0, 10 - u.login_frequency_30d)
        usage_factor ==
            Max(0, 100 - u.transactions_processed_30d)
                + 20 * Max(0, 5 - u.features_used_count)
        support_factor ==
            4 * Min(u.support_tickets_30d, 5) + 6 * Max(0, 5 - u.support_satisfaction_avg)
        value_factor ==
            Max(0, 200 - u.roi_achieved) + 10 * Max(0, 20 - u.time_saved_hours)
    IN  Min(ChurnUnit, Max(0, ChurnUnit \div 10 + 8 * engagement_factor + 10 * usage_factor
                                  + 32 * support_factor + 5 * value_factor))

determine_risk_level(churn_probability) ==
    IF churn_probability >= risk_thresholds.critical THEN "critical"
    ELSE IF churn_probability >= risk_thresholds.high THEN "high"
    ELSE IF churn_probability >= risk_thresholds.medium THEN "medium"
    ELSE IF churn_probability >= risk_thresholds.low THEN "low"
    ELSE "minimal"

\* identify_risk_factors, as the set of the factors (accuracy_rate keeps its
\* default 0.947, so 'Low accuracy rate' is never among them)
identify_risk_factors(u) ==
    {f \in {"Low engagement score", "No recent login activity", "Infrequent platform usage",
            "Low transaction volume", "Limited feature adoption", "No recent data uploads",
            "Multiple support issues", "Low support satisfaction", "Low ROI achievement",
            "Minimal time savings", "Payment issues"} :
        CASE f = "Low engagement score" -> u.engagement_score < 3
          [] f = "No recent login activity" -> u.days_since_last_login > 14
          [] f = "Infrequent platform usage" -> u.login_frequency_30d < 5
          [] f = "Low transaction volume" -> u.transactions_processed_30d < 10
          [] f = "Limited feature adoption" -> u.features_used_count < 2
          [] f = "No recent data uploads" -> u.data_upload_frequency < 1
          [] f = "Multiple support issues" -> u.support_tickets_30d > 3
          [] f = "Low support satisfaction" -> u.support_satisfaction_avg < 3
          [] f = "Low ROI achievement" -> u.roi_achieved < 50
          [] f = "Minimal time savings" -> u.time_saved_hours < 5
          [] f = "Payment issues" -> u.payment_on_time_rate < 80}

critical_factors == {"Payment issues", "Multiple support issues", "No recent login activity"}
high_factors == {"Low engagement score", "Low ROI achievement", "Limited feature adoption"}

determine_intervention_priority(churn_probability, risk_factors) ==
    LET base_priority ==
            IF churn_probability >= (8 * ChurnUnit) \div 10 THEN "critical"
            ELSE IF churn_probability >= (6 * ChurnUnit) \div 10 THEN "high"
            ELSE IF churn_probability >= (4 * ChurnUnit) \div 10 THEN "medium"
            ELSE "low"
    IN  IF risk_factors \cap critical_factors # {} THEN "critical"
        ELSE IF risk_factors \cap high_factors # {} THEN "high"
        ELSE base_priority

\* predict_churn_risk without a trained model (self.model is None)
predict_churn_risk(u) ==
    Only({[churn_probability |-> churn_probability,
           risk_level |-> determine_risk_level(churn_probability),
           risk_factors |-> identify_risk_factors(u),
           intervention_priority |->
               determine_intervention_priority(churn_probability, identify_risk_factors(u)),
           retention_score |-> ChurnUnit - churn_probability] :
          churn_probability \in {heuristic_churn_prediction(u)}})

----------------------------------------------------------------------------
(* SpecChurn: one call of predict_churn_risk on any user of ChurnUsers      *)

ChurnUsers ==
    [engagement_score : {0, 3, 10},
     days_since_last_login : {0, 14, 30},
     login_frequency_30d : {0, 10},
     transactions_processed_30d : {0, 100},
     features_used_count : {0, 5},
     data_upload_frequency : {1},
     support_tickets_30d : {0, 4},
     support_satisfaction_avg : {1, 5},
     roi_achieved : {0, 200},
     time_saved_hours : {0, 20},
     payment_on_time_rate : {50, 100}]

ChurnInit ==
    /\ user_data \in ChurnUsers
    /\ prediction = <<>>
    /\ now = 0
    /\ SupportIdle
    /\ RatioIdle
    /\ ScoreIdle
    /\ HttpIdle
    /\ ConcIdle
    /\ DateIdle
    /\ FeatIdle

\* model.predict_churn_risk(user_data)
CallPredictChurn ==
    /\ prediction = <<>>
    /\ prediction' = <<predict_churn_risk(user_data)>>
    /\ UNCHANGED <<user_data, supportVars, apiVars, now>>

ChurnNext == CallPredictChurn

SpecChurn == ChurnInit /\ [][ChurnNext]_vars

----------------------------------------------------------------------------
(* What the claims call a validation failure                                *)

NonNumeric(x) == x.k \in {"text", "null"}

MissingField(tx) == \E i \in 1..Len(RequiredFields) : RequiredFields[i] \notin DOMAIN tx

\* a transaction that is not an object, lacks a required field or has a
\* non-numeric amount
TxnInvalid(txn) ==
    \/ txn.t # "object"
    \/ MissingField(txn.f)
    \/ ("amount" \in DOMAIN txn.f /\ NonNumeric(txn.f.amount))

PairInvalid(pair) ==
    \/ pair.t # "object"
    \/ TxnInvalid(pair.reward_transaction)
    \/ TxnInvalid(pair.pos_transaction)

\* a threshold that is not a number in [0,1]
ThresholdInvalid(data) ==
    /\ "threshold" \in DOMAIN data
    /\ \/ data.threshold.k \notin {"num", "numstr"}
       \/ data.threshold.v < 0
       \/ data.threshold.v > PUnit

BatchReplied == hpc = "replied" /\ request.route = "/batch-predict"
PredictReplied == hpc = "replied" /\ request.route = "/predict"

\* a batch body with a list of pairs, each well-formed or invalid, and a
\* usable threshold
BatchOfPairs ==
    /\ request.data.t = "object"
    /\ request.data.transaction_pairs.t = "list"
    /\ ~ThresholdInvalid(request.data)
    /\ \A n \in 1..Len(request.data.transaction_pairs.items) :
          \/ request.data.transaction_pairs.items[n] \in WellFormedPairs
          \/ PairInvalid(request.data.transaction_pairs.items[n])

IsErrorEntry(entry) ==
    /\ "error" \in DOMAIN entry
    /\ entry.match_probability = 0
    /\ entry.recommendation = "Manual Review Required"

----------------------------------------------------------------------------
(* The claims                                                               *)

\* C1: in batch mode a pair that fails validation becomes an error entry in
\* its own slot (error field, probability 0, "Manual Review Required") and
\* the other pairs are still scored and returned: the response is a success
\* with one entry per pair.
C1_BatchIsolatesInvalidPairs ==
    (/\ BatchReplied
     /\ BatchOfPairs
     /\ \E n \in 1..Len(request.data.transaction_pairs.items) :
            PairInvalid(request.data.transaction_pairs.items[n]))
    => /\ response.status = 200
       /\ Len(response.results) = Len(request.data.transaction_pairs.items)
       /\ \A n \in 1..Len(response.results) :
            IF PairInvalid(request.data.transaction_pairs.items[n])
            THEN IsErrorEntry(response.results[n])
            ELSE env[n] \/ "error" \notin DOMAIN response.results[n]

\* C2: a successful batch response has one entry per input pair, in input
\* order, entry i carries pair_index i (result or error entry), total_pairs
\* is the number of results and successful_predictions the number of entries
\* without an error field.
C2_BatchResultsAligned ==
    (BatchReplied /\ response.status = 200)
    => LET items == request.data.transaction_pairs.items
           results == response.results
       IN  /\ Len(results) = Len(items)
           /\ \A n \in 1..Len(results) :
                /\ results[n].pair_index = n - 1
                /\ "error" \in DOMAIN results[n] <=> env[n]
                /\ ~env[n] =>
                     results[n] =
                        [pair_index |-> n - 1]
                        @@ predict_match(Coerced(items[n].reward_transaction.f),
                                         Coerced(items[n].pos_transaction.f),
                                         response.processing_info.threshold_used,
                                         results[n].processing_timestamp)
           /\ response.processing_info.total_pairs = Len(results)
           /\ response.processing_info.successful_predictions =
                Cardinality({n \in 1..Len(results) : "error" \notin DOMAIN results[n]})

\* a successful batch of two different pairs whose first scorer call raised
C2_Witness ==
    /\ BatchReplied
    /\ response.status = 200
    /\ Len(response.results) = 2
    /\ request.data.transaction_pairs.items[1] # request.data.transaction_pairs.items[2]
    /\ "error" \in DOMAIN response.results[1]
    /\ "error" \notin DOMAIN response.results[2]

\* C3: in single mode any validation failure (no body, a record that is not
\* an object, a missing required field, an amount that does not coerce to a
\* number, a threshold that is not a number in [0,1]) rejects the request
\* with a validation error carrying a message, and the scorer is not called.
C3_SingleModeRejectsInvalid ==
    (/\ PredictReplied
     /\ \/ request.data.t = "null"
        \/ /\ request.data.t = "object"
           /\ \/ TxnInvalid(request.data.reward_transaction)
              \/ TxnInvalid(request.data.pos_transaction)
              \/ ThresholdInvalid(request.data))
    => /\ response.status = 400
       /\ response.code = "validation_error"
       /\ response.error # <<>>
       /\ scored = 0

\* C4: overall_confidence and the final probability (after the +0.2 and
\* +0.1 boosts) lie in [0,1], and so do the values predict_match reports.
C4_ProbabilityInUnitInterval ==
    out # <<>>
    => \A features \in {engineer_features(reward, pos)} :
         /\ 0 <= features.overall_confidence
         /\ features.overall_confidence <= PUnit
         /\ 0 <= Boosted(features)
         /\ Boosted(features) <= PUnit
         /\ out[1].match_probability \in 0..10000
         /\ out[1].feature_analysis.overall_confidence \in 0..1000

\* both boosts applied to a confidence they would take above 1.0
C4_Witness ==
    /\ out # <<>>
    /\ \E features \in {engineer_features(reward, pos)} :
         /\ features.name_similarity * 10 > 8 * SimUnit
         /\ features.treatment_category_match = 1
         /\ features.date_proximity * 10 > 8 * DateUnit
         /\ features.overall_confidence + Frac(3, 10) > PUnit
    /\ out[1].match_probability = 10000

\* C5: the probability is classified top-down into exactly one of
\* (High, Auto-Accept) for >= 0.95, (Medium, Manual Review) for >= 0.80,
\* (Low, Likely No Match) otherwise; no other combination occurs.
C5_ThreeBuckets ==
    out # <<>>
    => \A p \in {Boosted(engineer_features(reward, pos))} :
         /\ p >= Frac(95, 100) =>
              out[1].confidence_level = "High" /\ out[1].recommendation = "Auto-Accept"
         /\ (p < Frac(95, 100) /\ p >= Frac(80, 100)) =>
              out[1].confidence_level = "Medium" /\ out[1].recommendation = "Manual Review"
         /\ p < Frac(80, 100) =>
              out[1].confidence_level = "Low" /\ out[1].recommendation = "Likely No Match"
         /\ <<out[1].confidence_level, out[1].recommendation>> \in
              {<<"High", "Auto-Accept">>, <<"Medium", "Manual Review">>,
               <<"Low", "Likely No Match">>}

\* a probability of at least 0.95 classified High
C5_Witness ==
    /\ out # <<>>
    /\ Boosted(engineer_features(reward, pos)) >= Frac(95, 100)
    /\ Boosted(engineer_features(reward, pos)) < PUnit
    /\ out[1].confidence_level = "High"

\* C6: the threshold decides only predicted_match (1 iff probability >=
\* threshold) and threshold_used: two calls on the same records with any two
\* thresholds return the same match_probability, confidence_level,
\* recommendation and feature_analysis.
C6_ThresholdOnlyFlag ==
    prevOut # <<>>
    => /\ out[1].match_probability = prevOut[1].match_probability
       /\ out[1].confidence_level = prevOut[1].confidence_level
       /\ out[1].recommendation = prevOut[1].recommendation
       /\ out[1].feature_analysis = prevOut[1].feature_analysis
       /\ out[1].threshold_used = thr
       /\ prevOut[1].threshold_used = prevThr
       /\ out[1].predicted_match =
            (IF Boosted(engineer_features(reward, pos)) >= thr THEN 1 ELSE 0)

\* two calls whose thresholds differ and whose flags differ
C6_Witness ==
    /\ prevOut # <<>>
    /\ thr # prevThr
    /\ out[1].predicted_match # prevOut[1].predicted_match

C8_ConcurrentCallsIndependent ==
    [][/\ cargs' = cargs
       /\ \A c \in 1..NCalls :
            cpc'[c] = "done" =>
               cout'[c] = <<predict_match(cargs[c].reward, cargs[c].pos,
                                          cargs[c].threshold, now)>>]_vars

\* call 1 returned after call 2, on other records, had computed its features
C8_Witness ==
    /\ cargs # <<>>
    /\ cpc[1] = "done"
    /\ cpc[2] = "features"
    /\ cargs[1].pos # cargs[2].pos

\* C9: ratio is symmetric: ratio(a, b) = ratio(b, a) for all strings.
C9_RatioSymmetric ==
    rpc = "done" => score = ratio(s2, s1)

\* C10: ratio returns 0 whenever either input is empty after trimming (the
\* empty string or a whitespace-only string), whatever the other input is.
C10_RatioZeroWhenBlank ==
    (rpc = "done" /\ (Strip(s1) = <<>> \/ Strip(s2) = <<>>)) => score = 0

\* C11: ratio returns an integer in [0,100] for all pairs of strings: the
\* +0.3 substring bonus on top of a full token overlap never pushes it above
\* 100, and name_similarity and service_similarity, computed from the same
\* two strings, stay in [0,1].
C11_RatioInRange ==
    rpc = "done"
    => /\ score \in 0..100
       /\ NameSimilarity([customer_name |-> s1], [customer_name |-> s2]) \in 0..SimUnit
       /\ ServiceSimilarity([service |-> s1], [service |-> s2]) \in 0..SimUnit

\* two different strings with the same tokens, one inside the other, whose
\* weighted sum is above 1.0
C11_Witness ==
    /\ rpc = "done"
    /\ Strip(Lower(s1)) # Strip(Lower(s2))
    /\ SplitSet(Strip(Lower(s1))) = SplitSet(Strip(Lower(s2)))
    /\ SplitSet(Strip(Lower(s1))) # {}
    /\ IsSubstr(Strip(Lower(s2)), Strip(Lower(s1)))
    /\ score = 100

\* C12: parse_date never raises: null or empty input, garbage text, a
\* string in an unsupported format and a malformed ISO-like string all yield
\* null, and a string with 'T' or a space that fromisoformat rejects yields
\* null without the list of plain formats being tried.
C12_ParseDateNeverRaises ==
    dpc = "done"
    => /\ dres.exc = "none"
       /\ dstr.form \in {"empty", "null", "number", "text", "text_sep", "mdy_time"}
             => dres.value = <<>>
       /\ (HasSeparator(dstr) /\ ~IsoParses(dstr)) => dres.value = <<>>

\* a string with a space that fromisoformat rejects was parsed to null
C12_Witness ==
    /\ dpc = "done"
    /\ dstr.form = "mdy_time"
    /\ ParseBody(dstr).exc = "ValueError"
    /\ dres = Returns(<<>>)

\* a date string parse_date has no value for; an amount float() rejects
Unparseable(tx) == parse_date(Get(tx, "date", EmptyDate)) = <<>>
NotANumber(tx) == FloatRaises(Get(tx, "amount", Num(0))) # "no"

\* the record with a well-formed date and amount in place of its own
WellFormed(tx, good) ==
    [f \in DOMAIN tx \cup {"date", "amount"} |->
        IF f \in {"date", "amount"} THEN good[f] ELSE tx[f]]

\* C13: engineer_features never raises and returns, for any two records
\* (missing fields included), all six fields, each numeric: an unparseable
\* date degrades date_proximity to 0, a non-numeric amount degrades
\* amount_ratio_valid to 0, and the other features are what they are for the
\* same records with a well-formed date and amount.
C13_FeaturesAlwaysPresent ==
    fpc = "done"
    => /\ fres.exc = "none"
       /\ fres.value # <<>>
       /\ \A features \in {fres.value[n] : n \in DOMAIN fres.value} :
            /\ DOMAIN features =
                 {"name_similarity", "service_similarity", "treatment_category_match",
                  "date_proximity", "amount_ratio_valid", "overall_confidence"}
            /\ features.name_similarity \in 0..SimUnit
            /\ features.service_similarity \in 0..SimUnit
            /\ features.treatment_category_match \in {0, 1}
            /\ features.date_proximity \in 0..DateUnit
            /\ features.amount_ratio_valid \in {0, 1}
            /\ features.overall_confidence \in 0..PUnit
            /\ (Unparseable(rtx) \/ Unparseable(ptx)) => features.date_proximity = 0
            /\ (NotANumber(rtx) \/ NotANumber(ptx)) => features.amount_ratio_valid = 0
            /\ \A normal \in {engineer_features(WellFormed(rtx, SampleReward),
                                               WellFormed(ptx, SamplePos))} :
                 /\ features.name_similarity = normal.name_similarity
                 /\ features.service_similarity = normal.service_similarity
                 /\ features.treatment_category_match = normal.treatment_category_match

\* a call on a record without a service and a record whose date and amount
\* are garbage, with the names still found equal
C13_Witness ==
    /\ fpc = "done"
    /\ "service" \notin DOMAIN rtx
    /\ Unparseable(ptx)
    /\ NotANumber(ptx)
    /\ fres.exc = "none"
    /\ fres.value # <<>>
    /\ fres.value[1].name_similarity = SimUnit
    /\ fres.value[1].date_proximity = 0
    /\ fres.value[1].amount_ratio_valid = 0

\* C14: amount_ratio_valid is 0 whenever the point-of-sale amount is 0,
\* whatever the reward amount is, and no division by zero occurs.
C14_ZeroPosAmount ==
    (fpc = "done" /\ Float(Get(ptx, "amount", Num(0))) = <<0>>)
    => /\ fres.exc = "none"
       /\ fres.value[1].amount_ratio_valid = 0
       /\ AmountBlock(rtx, ptx).exc # "ZeroDivisionError"

\* a call with a point-of-sale amount of 0 and a reward amount of 0
C14_Witness ==
    /\ fpc = "done"
    /\ "amount" \in DOMAIN ptx
    /\ "amount" \in DOMAIN rtx
    /\ ptx.amount = Num(0)
    /\ rtx.amount = Num(0)
    /\ fres.value[1].amount_ratio_valid = 0

\* C15: for the reference pair (Sarah Johnson, Botox Treatment, 35.0,
\* 2024-08-15) and ("Johnson, Sarah", Neurotoxin Injection, 350.0,
\* "2024-08-15 14:30:00") with the default threshold, predict_match yields
\* name_similarity 1.0, treatment_category_match 1, amount_ratio_valid 1,
\* date_proximity > 0.9, confidence_level High and recommendation Auto-Accept.
C15_ReferencePair ==
    (/\ out # <<>>
     /\ reward = ReferenceReward
     /\ pos = ReferencePos
     /\ thr = Float(DefaultThreshold)[1])
    => /\ engineer_features(reward, pos).name_similarity = SimUnit
       /\ engineer_features(reward, pos).date_proximity * 10 > 9 * DateUnit
       /\ out[1].feature_analysis.name_similarity = 1000
       /\ out[1].feature_analysis.treatment_category_match = 1
       /\ out[1].feature_analysis.amount_ratio_valid = 1
       /\ out[1].feature_analysis.date_proximity > 900
       /\ out[1].confidence_level = "High"
       /\ out[1].recommendation = "Auto-Accept"

\* the reference pair scored with the default threshold
C15_Witness ==
    /\ out # <<>>
    /\ prevOut = <<>>
    /\ reward = ReferenceReward
    /\ pos = ReferencePos
    /\ thr = Float(DefaultThreshold)[1]
    /\ out[1].threshold_used = Frac(95, 100)
    /\ out[1].predicted_match = 1

\* C16: a failure inside feature engineering or scoring reaches the caller
\* only as a generic internal-error indication: neither the /predict
\* response nor any entry of a /batch-predict response contains the text of
\* the internal exception.
C16_NoInternalText ==
    hpc = "replied"
    => /\ "error" \in DOMAIN response => response.error # ScorerFailure.msg
       /\ "results" \in DOMAIN response =>
             \A n \in 1..Len(response.results) :
                "error" \in DOMAIN response.results[n]
                   => response.results[n].error # ScorerFailure.msg

\* C17: in every successful batch response summary.total is the number of
\* result entries, each entry is counted in exactly one of auto_accept,
\* manual_review, likely_no_match or is an error entry (the three counts plus
\* the number of error entries make summary.total), and
\* auto_accept_rate_percent is 100*auto_accept/total rounded to the nearest
\* integer, or 0 for an empty batch.
C17_SummaryCounts ==
    (BatchReplied /\ response.status = 200)
    => LET results == response.results
           summary == response.summary
           With(rec) == {n \in 1..Len(results) :
                            "error" \notin DOMAIN results[n]
                            /\ results[n].recommendation = rec}
           errors == {n \in 1..Len(results) : "error" \in DOMAIN results[n]}
       IN  /\ summary.total = Len(results)
           /\ summary.auto_accept = Cardinality(With("Auto-Accept"))
           /\ summary.manual_review = Cardinality(With("Manual Review"))
           /\ summary.likely_no_match = Cardinality(With("Likely No Match"))
           /\ summary.auto_accept + summary.manual_review + summary.likely_no_match
                + Cardinality(errors) = summary.total
           /\ IF summary.total = 0
              THEN summary.auto_accept_rate_percent = 0
              ELSE /\ 2 * (summary.auto_accept_rate_percent * summary.total
                           - 100 * summary.auto_accept) <= summary.total
                   /\ 2 * (100 * summary.auto_accept
                           - summary.auto_accept_rate_percent * summary.total)
                        <= summary.total

\* a successful batch of an Auto-Accept result and an error entry
C17_Witness ==
    /\ BatchReplied
    /\ response.status = 200
    /\ Len(response.results) = 2
    /\ "error" \in DOMAIN response.results[1]
    /\ response.results[2].recommendation = "Auto-Accept"
    /\ response.summary.auto_accept_rate_percent = 50

\* C18: the final probability of predict_match is
\* min(1.0, overall_confidence + 0.2*[name_similarity > 0.8 and
\* treatment_category_match = 1] + 0.1*[date_proximity > 0.8]): both boosts
\* may apply in the same call, and applying them in the other order, each
\* followed by the cap at 1.0, gives the same result.
C18_BoostFormula ==
    out # <<>>
    => \A features \in {engineer_features(reward, pos)} :
         LET name_boost == IF /\ features.name_similarity * 10 > 8 * SimUnit
                              /\ features.treatment_category_match = 1
                           THEN Frac(2, 10) ELSE 0
             date_boost == IF features.date_proximity * 10 > 8 * DateUnit
                           THEN Frac(1, 10) ELSE 0
         IN  /\ Boosted(features)
                  = Min(PUnit, features.overall_confidence + name_boost + date_boost)
             /\ Boosted(features)
                  = Min(PUnit, Min(PUnit, features.overall_confidence + date_boost)
                               + name_boost)
             /\ out[1].match_probability = Round4(Boosted(features))

\* both boosts applied, to a confidence that stays below 1.0 after them
C18_Witness ==
    /\ out # <<>>
    /\ \E features \in {engineer_features(reward, pos)} :
         /\ features.name_similarity * 10 > 8 * SimUnit
         /\ features.treatment_category_match = 1
         /\ features.date_proximity * 10 > 8 * DateUnit
         /\ features.overall_confidence + Frac(3, 10) < PUnit
         /\ Boosted(features) = features.overall_confidence + Frac(3, 10)

\* C19: overall_confidence is exactly 0.4*name_similarity +
\* 0.3*service_similarity + 0.2*date_proximity + 0.1*amount_ratio_valid;
\* treatment_category_match does not enter it and changes the probability
\* only through the +0.2 boost.
C19_OverallConfidence ==
    out # <<>>
    => \A features \in {engineer_features(reward, pos)} :
         \* both sides in units of 1/(10 * SimUnit * DateUnit)
         /\ PUnit = 10 * SimUnit * DateUnit
         /\ features.overall_confidence
              = 4 * features.name_similarity * DateUnit
                + 3 * features.service_similarity * DateUnit
                + 2 * features.date_proximity * SimUnit
                + 1 * features.amount_ratio_valid * SimUnit * DateUnit
         /\ \A unmatched \in {[features EXCEPT !.treatment_category_match = 0]} :
              Boosted(features) =
                 IF /\ features.treatment_category_match = 1
                    /\ features.name_similarity * 10 > 8 * SimUnit
                 THEN Min(PUnit, Boosted(unmatched) + Frac(2, 10))
                 ELSE Boosted(unmatched)

\* a category match on records whose names differ: no boost, and the
\* probability is the overall confidence
C19_Witness ==
    /\ out # <<>>
    /\ \E features \in {engineer_features(reward, pos)} :
         /\ features.treatment_category_match = 1
         /\ features.name_similarity * 10 <= 8 * SimUnit
         /\ features.date_proximity * 10 <= 8 * DateUnit
         /\ features.service_similarity > 0
         /\ Boosted(features) = features.overall_confidence

\* C20: for two non-empty strings that differ after lower-casing and
\* trimming, ratio is clamp(0, 100, round(100 * (0.6*J + 0.4*C))), with J the
\* Jaccard similarity of the token sets plus 0.3 if one trimmed string is a
\* substring of the other and C the number of characters of the first that
\* occur in the second over the length of the longer: the scaled value is
\* rounded to the nearest integer.
C20_RatioRounded ==
    (/\ rpc = "done"
     /\ s1 # <<>>
     /\ s2 # <<>>
     /\ Strip(Lower(s1)) # Strip(Lower(s2)))
    => \A x1 \in {Strip(Lower(s1))}, x2 \in {Strip(Lower(s2))} :
         LET intersection == Cardinality(SplitSet(x1) \cap SplitSet(x2))
             union == Cardinality(SplitSet(x1) \cup SplitSet(x2))
             bonus == IF IsSubstr(x1, x2) \/ IsSubstr(x2, x1) THEN 1 ELSE 0
             common_chars == Cardinality({i \in 1..Len(x1) : CharIn(x1[i], x2)})
             longest == Max(Len(x1), Len(x2))
             \* 100 * (0.6*J + 0.4*C) = scaled / (10 * union * longest)
             scaled == 600 * intersection * longest + 180 * bonus * union * longest
                       + 400 * common_chars * union
         IN  score = Max(0, Min(100, RoundDiv(scaled, 10 * union * longest)))

\* C21: when both amounts parse as numbers and the point-of-sale amount B is
\* not 0 (of either sign), amount_ratio_valid is 1 if and only if A/B lies in
\* [0.05, 0.5], and 0 otherwise.
C21_AmountRatioBand ==
    (/\ fpc = "done"
     /\ ~NotANumber(rtx)
     /\ ~NotANumber(ptx)
     /\ Float(Get(ptx, "amount", Num(0)))[1] # 0)
    => \A a \in {Float(Get(rtx, "amount", Num(0)))[1]},
          b \in {Float(Get(ptx, "amount", Num(0)))[1]} :
         fres.value[1].amount_ratio_valid =
            IF \/ (b > 0 /\ b <= 20 * a /\ 2 * a <= b)
               \/ (b < 0 /\ b >= 20 * a /\ 2 * a >= b)
            THEN 1 ELSE 0

\* the names as engineer_features compares them: lower-cased and trimmed
LoweredName(tx) == Strip(Lower(Get(tx, "customer_name", <<>>)))
\* the number of comma-separated parts of a name
CommaParts(name) == Cardinality({i \in 1..Len(name) : name[i] = ","}) + 1
\* "First Last" of a name "Last, First" of two comma-separated parts
FirstLast(name) ==
    LET k == CHOOSE i \in 1..Len(name) : name[i] = ","
    IN  Strip(SubSeq(name, k + 1, Len(name))) \o <<" ">> \o Strip(SubSeq(name, 1, k - 1))

\* C22: B's name is rewritten from "Last, First" to "First Last" exactly when
\* B's lower-cased, trimmed name contains a comma, A's name contains none and
\* B's name has exactly two comma-separated parts; in every other case B's
\* name is compared unmodified.
C22_NameNormalisation ==
    fpc = "done"
    => \A a \in {LoweredName(rtx)}, b \in {LoweredName(ptx)} :
          fres.value[1].name_similarity =
             IF CharIn(",", b) /\ ~CharIn(",", a) /\ CommaParts(b) = 2
             THEN ratio(a, FirstLast(b))
             ELSE ratio(a, b)

\* a "Last, First" name was rewritten and matches the reward name fully,
\* which it does not as it stands
C22_Witness ==
    /\ fpc = "done"
    /\ CharIn(",", LoweredName(ptx))
    /\ ~CharIn(",", LoweredName(rtx))
    /\ CommaParts(LoweredName(ptx)) = 2
    /\ ratio(LoweredName(rtx), LoweredName(ptx)) < 100
    /\ fres.value[1].name_similarity = 100

\* the service as engineer_features searches it: lower-cased
LoweredService(tx) == Lower(Get(tx, "service", <<>>))
\* the categories of the keyword table a service has a keyword of
Categories(service) ==
    {c \in 1..Len(treatment_keywords) :
        \E kw \in treatment_keywords[c] : IsSubstr(kw, service)}

\* C23: treatment_category_match is 1 if and only if there is a category of
\* the keyword table (botox, filler, coolsculpting, laser, iv) for which both
\* lower-cased services contain a keyword of that same category; a service
\* that also matches other categories does not change the result.
C23_SameCategory ==
    fpc = "done"
    => (fres.value[1].treatment_category_match = 1
          <=> Categories(LoweredService(rtx)) \cap Categories(LoweredService(ptx)) # {})
       /\ fres.value[1].treatment_category_match \in {0, 1}

\* a service of two categories matched one of a later category only: the
\* first category, which only the reward service has, did not decide
C23_Witness ==
    /\ fpc = "done"
    /\ Categories(LoweredService(rtx)) = {1, 2}
    /\ Categories(LoweredService(ptx)) = {2}
    /\ fres.value[1].treatment_category_match = 1

\* C24: date_proximity is 0 if either date fails to parse; otherwise it is
\* max(0, 1 - h/168) for the absolute difference h of the two parsed dates in
\* hours: 1 for equal timestamps, 0 for every gap of 7 days or more.
C24_DateProximity ==
    fpc = "done"
    => IF Unparseable(rtx) \/ Unparseable(ptx)
       THEN fres.value[1].date_proximity = 0
       ELSE \A reward_date \in {parse_date(Get(rtx, "date", EmptyDate))[1]},
               pos_date \in {parse_date(Get(ptx, "date", EmptyDate))[1]} :
              fres.value[1].date_proximity =
                 Max(0, DateUnit - Abs(reward_date - pos_date))

\* C25: every result of predict_match is consistent between its reported
\* fields: predicted_match is 1 exactly when the reported match_probability
\* (rounded to 4 decimals) is >= threshold_used, and confidence_level is High
\* exactly when the reported match_probability is >= 0.95.
\* (match_probability is in 1/10000 and threshold_used in 1/PUnit:
\* m/10000 >= t/PUnit is m * 168 >= t * 5.)
C25_ReportedFieldsConsistent ==
    out # <<>>
    => /\ out[1].predicted_match = 1
            <=> out[1].match_probability * 168 >= out[1].threshold_used * 5
       /\ out[1].confidence_level = "High" <=> out[1].match_probability >= 9500

\* the last n entries of a sequence (all of it when it has fewer)
MostRecent(seq, n) ==
    IF Len(seq) > n THEN SubSeq(seq, Len(seq) - n + 1, Len(seq)) ELSE seq

\* C26: after any sequence of chat turns the context stored for a session
\* holds at most 10 entries, and they are the most recent turns of that
\* session in arrival order (all of the last 10 as long as the key has not
\* expired); each update appends one entry and drops the oldest beyond 10,
\* and leaves the contexts of the other sessions unchanged.
C26_ContextHoldsLastTurns ==
    /\ [](\A s \in DOMAIN contexts :
            /\ Len(contexts[s]) <= 10
            /\ contexts[s] = MostRecent(turns[s], Len(contexts[s]))
            /\ expired = 0 => contexts[s] = MostRecent(turns[s], 10))
    /\ [][\A s \in DOMAIN turns :
            turns'[s] # turns[s]
            => /\ contexts'[s] =
                    MostRecent(Append(contexts[s], turns'[s][Len(turns'[s])]), 10)
               /\ \A o \in DOMAIN contexts \ {s} : contexts'[o] = contexts[o]]_vars

\* the eleventh turn of a session has dropped its first
C26_Witness ==
    /\ chatReply = 200
    /\ \E s \in DOMAIN turns :
        /\ Len(turns[s]) > 10
        /\ Len(contexts[s]) = 10
        /\ contexts[s][1] = turns[s][Len(turns[s]) - 9]
        /\ contexts[s][1] # turns[s][1]

\* C27: when chat requests for the same session_id are handled concurrently,
\* the turns of all of them end up in that session's stored context: no
\* interleaving of the get and setex steps loses an entry.
C27_NoLostTurn ==
    \A r \in DOMAIN inflight :
        inflight[r].pc = "done"
        => \E i \in 1..Len(contexts[inflight[r].session_id]) :
              contexts[inflight[r].session_id][i].user_message = inflight[r].message

\* C28: every ticket created by create_support_ticket or create_auto_ticket
\* is stored under an id no existing ticket has: after any sequence of
\* successful creations (several by one user, or by users sharing the first
\* 8 characters of user_id, within the same second included) the store holds
\* one ticket per creation.
C28_OneTicketPerCreation ==
    Cardinality(support_tickets) = creations

\* C29: update_ticket leaves the ticket store unchanged whenever it reports
\* an error: 404 for an unknown ticket id, creating no ticket, and an error
\* for an invalid status value, modifying no field of the ticket even when the
\* request also carries a resolution or a satisfaction_score.
C29_FailedUpdateChangesNothing ==
    [][(ticketReply' # 0 /\ ticketRequest'.op = "update")
       => /\ (\A x \in support_tickets : x.id # ticketRequest'.ticket_id)
                => ticketReply' = 404
          /\ (/\ \E x \in support_tickets : x.id = ticketRequest'.ticket_id
              /\ "status" \in DOMAIN ticketRequest'.data
              /\ ticketRequest'.data.status \notin StatusValues)
                => ticketReply' >= 400
          /\ ticketReply' >= 400 => support_tickets' = support_tickets]_vars

\* an update of an existing ticket with an invalid status, a resolution and
\* a score was answered with an error, and the ticket has neither
C29_Witness ==
    /\ ticketReply = 500
    /\ ticketRequest.op = "update"
    /\ "resolution" \in DOMAIN ticketRequest.data
    /\ "satisfaction_score" \in DOMAIN ticketRequest.data
    /\ \E x \in support_tickets :
        /\ x.id = ticketRequest.ticket_id
        /\ x.resolution = <<>>
        /\ x.satisfaction_score = <<>>
        /\ x.status = "open"

\* the priority the churn probability alone implies, and the order of the
\* priorities
ImpliedPriority(p) ==
    IF 10 * p >= 8 * ChurnUnit THEN "critical"
    ELSE IF 10 * p >= 6 * ChurnUnit THEN "high"
    ELSE IF 10 * p >= 4 * ChurnUnit THEN "medium"
    ELSE "low"
PriorityRank(priority) ==
    CASE priority = "low" -> 1
      [] priority = "medium" -> 2
      [] priority = "high" -> 3
      [] priority = "critical" -> 4

\* C30: determine_intervention_priority never returns a priority lower than
\* the one implied by the churn probability alone (critical for >= 0.8, high
\* for >= 0.6, medium for >= 0.4, low otherwise): risk factors can only raise
\* it, so a user whose risk_level is critical gets priority critical.
C30_PriorityNotBelowProbability ==
    prediction # <<>>
    => /\ PriorityRank(prediction[1].intervention_priority)
            >= PriorityRank(ImpliedPriority(prediction[1].churn_probability))
       /\ prediction[1].risk_level = "critical"
            => prediction[1].intervention_priority = "critical"

====
